---- MODULE Spec2Model ----
(***************************************************************************)
(* A model of the signal/effect runtime of simplyflow (src/state.mjs as    *)
(* bundled in src/src/flow.mjs, lines 22-405).                             *)
(*                                                                         *)
(* JavaScript runs one call at a time, so the model is a small-step        *)
(* machine over an explicit call stack (frames).  A frame is one active    *)
(* call of the runtime: a user effect function (fn), computeEffect2        *)
(* (compute), the proxy set trap (set), the listener loop of notifySet or  *)
(* runBatchedListeners (notify) and batch (batch).  The application code   *)
(* acts when the call stack is empty or when it is in the body of the      *)
(* function it passed to batch.                                            *)
(***************************************************************************)
EXTENDS Integers, Sequences, FiniteSets, TLC

\* ------------------------------------------------------------------ bounds
MaxVal == 1        \* the application writes the numbers 0..MaxVal
MaxEffects == 2    \* number of effect() calls the application makes
MaxBatch == 1       \* depth of batch() calls of the applications that do not nest them
MaxNest == 2        \* nesting depth of batch() calls of the application that nests them
MaxBatchOps == 2   \* number of writes and effect() calls inside one top-level batch() call
MaxTick == 2       \* the application advances clock.time from 0 up to MaxTick
MaxTime == 4       \* Date.now() runs from 0 up to MaxTime
MaxPending == 2    \* number of deferred results that are pending at one time

\* ------------------------------------------------------------------ values
\* A JavaScript value is a number 0.., undefined, null or a reference to an
\* object; references are the numbers from ObjA on.
Undef == -1
Null == -2
ObjA == 10         \* raw container A = {p: 0, q: 0, n: B}
ObjB == 11         \* raw container B = {p: 0}
Fns == 1..6        \* the effect functions the application may define
UFn == 7           \* an effect function that calls untracked
AFn == 8           \* an async effect function
CFn == 9           \* an effect function that advances the clock
MFn == 10          \* an effect function that looks an entry of a Map up
KFn == 11          \* an effect function that lists the keys of A
HFn == 12          \* an effect function that tests whether A has the key q
XFn == 13          \* an effect function that writes inside untracked
SortFn == 14       \* the effect function of sort()
PageFn == 15       \* the effect function of paging()
RFn == 16          \* an effect function that reads the result of effect 5
Computes == Fns \cup {UFn, AFn, CFn, MFn, KFn, HFn, XFn, SortFn, PageFn, RFn}   \* effect(f) succeeds at most once per f: its
                                  \* computeEffect2 is named f
ResObj(f) == 20 + f   \* the {current: null} object effect(f) creates
FnObj(f) == 40 + f    \* the function object f (a key of the signals WeakMap)
DataObjs == {ObjA, ObjB}
ObjC == 12         \* raw container of the clock = {time: 0}
ObjM == 13         \* raw container M = new Map([["k", 0]]); store[ObjM] holds its entries
\* the view-model of model({data: [0, 0]}) with sort({sortBy: 'value'}) and
\* paging({pageSize: 1})
ObjS == 14         \* the model's state = {data: D, options: O}
ObjO == 15         \* state.options = {sort: So, paging: Pg}
ObjSo == 16        \* options.sort = {direction: 1 (asc) or 2 (desc), sortBy: 1, sortFn: 1}
ObjPg == 17        \* options.paging = {page: 1, pageSize: 1, max: 1}
ObjD == 18         \* the data array [0, 0], of rows that are their value
ModelObjs == {ObjS, ObjO, ObjSo, ObjPg, ObjD}
Objs == DataObjs \cup {ObjC, ObjM} \cup ModelObjs \cup {ResObj(f) : f \in Computes}
Props == {"p", "q", "n", "current", "time", "k", "data", "options", "sort", "paging",
          "direction", "sortBy", "sortFn", "page", "pageSize", "max", "length", "0", "1"}
iterate == "Symbol(iterate)"
\* the property names the application uses on object o
DataProps == {"p", "q", "n"}
PropsOf(o) ==
  CASE o \in DataObjs -> DataProps
    [] o = ObjC -> {"time"}
    [] o = ObjM -> {"k"}
    [] o = ObjS -> {"data", "options"}
    [] o = ObjO -> {"sort", "paging"}
    [] o = ObjSo -> {"direction", "sortBy", "sortFn"}
    [] o = ObjPg -> {"page", "pageSize", "max"}
    [] o = ObjD -> {"0", "1", "length"}
    [] OTHER -> {"current"}
Modulus == 2       \* the application's writer effects count modulo 2

IsObject(v) == v >= ObjA
Num(v) == IF v >= 0 /\ v < ObjA THEN v ELSE 0

\* A Proxy object: <<target, n>> is the n-th Proxy created for the target.
NoProxy == <<0, 0>>
Target(proxy) == proxy[1]

\* ------------------------------------------------- the application's code
\* An effect function is a straight-line program over an accumulator that
\* it returns at its end.
\*   read     acc += signal(c)[p]
\*   read2    acc += signal(c)[p][p2]
\*   readRes  acc += r.current, r the result Signal effect(g) returned
\*   sel      acc += signal(c)[p] ? signal(c2)[p2] : signal(c3)[p3]
\*   dbl      acc *= 2
\*   write    signal(c)[p] = (acc + k) % Modulus
I0 == [op |-> "", c |-> 0, p |-> "", c2 |-> 0, p2 |-> "", c3 |-> 0, p3 |-> "", g |-> 0, k |-> 0]
Read(c, p) == [I0 EXCEPT !.op = "read", !.c = c, !.p = p]
Read2(c, p, p2) == [I0 EXCEPT !.op = "read2", !.c = c, !.p = p, !.p2 = p2]
ReadRes(g) == [I0 EXCEPT !.op = "readRes", !.g = g]
Sel(c, p, c2, p2, c3, p3) ==
  [I0 EXCEPT !.op = "sel", !.c = c, !.p = p, !.c2 = c2, !.p2 = p2, !.c3 = c3, !.p3 = p3]
Dbl == [I0 EXCEPT !.op = "dbl"]
Write(c, p, k) == [I0 EXCEPT !.op = "write", !.c = c, !.p = p, !.k = k]
UBegin == [I0 EXCEPT !.op = "ubegin"]     \* untracked(() => {
UEnd == [I0 EXCEPT !.op = "uend"]         \* })
Await == [I0 EXCEPT !.op = "await"]       \* await of a deferred result
BBegin == [I0 EXCEPT !.op = "bbegin"]     \* batch(() => {
BEnd == [I0 EXCEPT !.op = "bend"]         \* })
\* data.current.toSorted(sort.sortFn), data being the object {current: D}
SortRaw == [I0 EXCEPT !.op = "sort", !.c = ObjD]
\* paging.max = Math.ceil(this.state.data.length / paging.pageSize)
SetMax == [I0 EXCEPT !.op = "setmax", !.c = ObjPg, !.p = "max"]
\* paging.page = Math.max(1, Math.min(paging.max, paging.page))
Clamp == [I0 EXCEPT !.op = "clamp", !.c = ObjPg, !.p = "page"]
\* data.current.slice(start, end), data being the result Signal of effect g
Slice(g) == [I0 EXCEPT !.op = "slice", !.g = g]
WriteOps == {"write", "setmax", "clamp"}
MapGet(c, k) == [I0 EXCEPT !.op = "mapget", !.c = c, !.p = k]   \* c.get(k)
Keys(c) == [I0 EXCEPT !.op = "keys", !.c = c]                    \* Object.keys(c).length
Has(c, p) == [I0 EXCEPT !.op = "has", !.c = c, !.p = p]          \* p in c
\* if (clock.time < MaxTick) clock.time = clock.time + 1, after a read of clock.time
Advance == [I0 EXCEPT !.op = "advance", !.c = ObjC, !.p = "time"]

Prog(f) ==
  CASE f = 1 -> <<Read(ObjA, "p"), Dbl>>                    \* () => A.p * 2
    [] f = 2 -> <<ReadRes(1)>>                              \* () => r1.current
    [] f = 3 -> <<ReadRes(1), Read2(ObjA, "n", "p")>>       \* () => r1.current + A.n.p
    [] f = 4 -> <<Sel(ObjB, "p", ObjA, "p", ObjA, "q")>>    \* () => B.p ? A.p : A.q
    [] f = 5 -> <<Read(ObjA, "p"), Write(ObjB, "p", 0)>>    \* () => { B.p = A.p % 2 }
    [] f = 6 -> <<Read(ObjB, "p"), Write(ObjB, "p", 1),     \* () => { x = B.p; B.p = (x + 1) % 2;
                  Write(ObjA, "p", 1)>>                     \*         A.p = (x + 1) % 2 }
    [] f = UFn -> <<Read(ObjA, "p"), UBegin,                \* () => { f = A.p;
                    Read(ObjB, "p"), UEnd>>                 \*   return untracked(() => f + B.p) }
    [] f = CFn -> <<Read(ObjB, "p"), Read(ObjC, "time"),    \* () => { B.p; if (clock.time < MaxTick)
                    Advance>>                               \*                  clock.time++ }
    [] f = XFn -> <<Read(ObjA, "p"), UBegin,                \* () => { x = A.p; return untracked(() =>
                    Write(ObjB, "p", 1), UEnd>>             \*   { B.p = (x + 1) % 2; return x }) }
    [] f = SortFn -> <<Read(ObjS, "options"), Read(ObjO, "sort"),
                       Read(ObjSo, "sortBy"), Read(ObjSo, "direction"),
                       Read(ObjSo, "sortFn"), SortRaw>>
    [] f = PageFn -> <<BBegin, Read(ObjS, "options"), Read(ObjO, "paging"),
                       Read(ObjPg, "pageSize"), Read2(ObjS, "data", "length"),
                       Read(ObjPg, "pageSize"), SetMax,
                       Read(ObjPg, "max"), Read(ObjPg, "page"), Clamp,
                       Read(ObjPg, "page"), Read(ObjPg, "pageSize"), Slice(SortFn), BEnd>>
    [] f = RFn -> <<Read(ObjB, "p"), ReadRes(5),            \* () => { A.p = (B.p + r5.current + 1) % 2 }
                    Write(ObjA, "p", 1)>>
    [] f = MFn -> <<MapGet(ObjM, "k")>>                     \* () => M.get("k")
    [] f = KFn -> <<Keys(ObjA)>>                            \* () => Object.keys(A).length
    [] f = HFn -> <<Has(ObjA, "q")>>                        \* () => "q" in A ? 1 : 0
    [] OTHER -> <<Read(ObjA, "p"), Await,                   \* async () => { x = A.p; await ...;
                  Read(ObjB, "p")>>                         \*               return x + B.p }

\* the result Signals a function reads: they must exist before it is defined
Needs(f) ==
  {Prog(f)[j].g : j \in {j \in 1..Len(Prog(f)) : Prog(f)[j].op \in {"readRes", "slice"}}}
IsPure(f) == \A j \in 1..Len(Prog(f)) : Prog(f)[j].op \notin WriteOps \cup {"advance"}

\* ------------------------------------------------------------------- state
VARIABLES
  store,             \* the raw containers: object -> property -> value
  signals,           \* WeakMap signals: object or function -> its Proxy
  proxyCount,        \* number of Proxy objects created per target
  listenersMap,      \* <<Proxy, property>> -> ordered Set of computations
  computeMap,        \* computation -> set of <<property, Proxy>>
  needsUpdate,       \* computation -> listener.needsUpdate
  context,           \* computation -> property keys of listener.context
  computeStack, signalStack, effectStack,
  effectMap,         \* result Proxies that have an entry in effectMap
  batchMode, batchedListeners,
  frames,            \* the JavaScript call stack, innermost call last
  exc,               \* the exception being thrown, "none" if none
  \* history variables
  returned,          \* object -> the <<Proxy, "signal" or "get">> that signal(object) and
                     \* the get trap (for an object-valued property) returned
  lastReads,         \* computation -> <<object, property>> read by its last completed run
  log,               \* the runs of effect functions in the current top-level call
  op,                \* the current (or last) top-level call of the application: its kind,
                     \* the property written (c, p) or function defined (f), the error
                     \* it raised, the number n of calls made so far in its batch body, the
                     \* properties its writes changed, and whether an effect function
                     \* changed, by its own write, a property it had read in that run
  reads0,            \* lastReads when the current top-level call started
  res0,              \* computation -> its result's current when that call started
  \* the effect variants
  variant,           \* computation -> "effect", "throttled" or "clock": what created it
  lastTick,          \* clockEffect: computation -> lastTick of its closure
  hasChanged,        \* clockEffect: computation -> hasChanged of its closure
  runTick,           \* history: computation -> clock.time when its function last started
  throttled,         \* throttledEffect: computation -> throttled of its closure (0: false)
  hasChange,         \* throttledEffect: computation -> hasChange of its closure
  now,               \* Date.now()
  timers,            \* pending setTimeout callbacks: <<computation, time due>>
  ranAt,             \* history: computation -> Date.now() when its function last started
  tasks,             \* the pending deferred results, in the order they were created:
                     \* a run of an async effect function suspended at its await
                     \* (k = "run") or the result of the function passed to batch
                     \* (k = "batch")
  lastVal            \* history: computation -> the value its most recent run settled with

clockv == <<lastTick, hasChanged, runTick>>
thrv == <<throttled, hasChange, now, timers, ranAt>>
asyncv == <<tasks, lastVal>>
ext == <<variant, clockv, thrv, asyncv>>
vars == <<store, signals, proxyCount, listenersMap, computeMap, needsUpdate, context,
          computeStack, signalStack, effectStack, effectMap, batchMode, batchedListeners,
          frames, exc, returned, lastReads, log, op, reads0, res0, ext>>

\* ----------------------------------------------------------------- helpers
Last(s) == s[Len(s)]
Front(s) == SubSeq(s, 1, Len(s) - 1)
Range(s) == {s[j] : j \in DOMAIN s}
AddNew(s, x) == IF x \in Range(s) THEN s ELSE Append(s, x)
RECURSIVE Union(_, _)
\* Set.prototype.union on insertion-ordered Sets
Union(s, t) == IF t = <<>> THEN s ELSE Union(AddNew(s, Head(t)), Tail(t))

ResultSignal(h, e) == h[FnObj(e)]   \* connectedSignal of computation e: signals.get(fn)

\* ------------------------------------------------ signal(), lines 118-124
\* h is the part of the state the read path changes:
\* [signals, proxyCount, returned, listenersMap, computeMap] plus the results
\* ret (a Proxy) and val (a value).
signal_nomemo(h, v) ==
  LET proxy == <<v, h.proxyCount[v] + 1>> IN
  [h EXCEPT !.signals[v] = proxy, !.proxyCount[v] = @ + 1, !.ret = proxy]

signal(h, v) ==
  IF h.signals[v] # NoProxy
  THEN [h EXCEPT !.ret = h.signals[v]]
  ELSE LET proxy == <<v, h.proxyCount[v] + 1>> IN
       [h EXCEPT !.signals[v] = proxy, !.proxyCount[v] = @ + 1, !.ret = proxy]

\* history: the Proxy a call of signal(v) handed to its caller
Handed(h, v, how) == [h EXCEPT !.returned[v] = @ \cup {<<h.ret, how>>}]
\* signal(v) called by the application
UserSignal(h, v) == Handed(signal(h, v), v, "signal")

\* ------------------------------------------ dependency graph, lines 178-220
getListeners_none(lm, self, property) == <<>>

getListeners(lm, self, property) ==
  IF <<self, property>> \in DOMAIN lm THEN lm[<<self, property>>] ELSE <<>>

setListeners(h, self, property, compute) ==
  LET key == <<self, property>> IN
  [h EXCEPT !.listenersMap = IF key \in DOMAIN h.listenersMap
                             THEN [h.listenersMap EXCEPT ![key] = AddNew(@, compute)]
                             ELSE (key :> <<compute>>) @@ h.listenersMap,
            !.computeMap[compute] = @ \cup {<<property, self>>}]

notifyGet(h, self, property, cs) ==
  IF cs # <<>> THEN setListeners(h, self, property, Last(cs)) ELSE h

\* computeMap.get(compute) is a Map property -> Set of Proxies, and
\* Map.prototype.forEach calls back with (value, key).  The callback's one
\* parameter, which the code names `property`, is therefore bound to the Set
\* of Proxies; the code iterates that Set and looks the Set itself up as a key
\* of the listeners of each Proxy in it.  forEachArg is that lookup key.
forEachArg(property) == "[object Set]"

RemoveAll(s, x) == SelectSeq(s, LAMBDA y : y # x)

clearListeners(lm, cm, compute) ==
  [key \in DOMAIN lm |->
     IF \E edge \in cm[compute] : key = <<edge[2], forEachArg(edge[1])>>
     THEN RemoveAll(lm[key], compute)
     ELSE lm[key]]

\* ----------------------------------------------- get trap, lines 38-76
\* (the values of this model are numbers and plain objects, never functions)
get(h, receiver, property, cs, st) ==
  LET value == st[Target(receiver)][property]
      h1 == notifyGet(h, receiver, property, cs)
  IN IF IsObject(value)
     THEN [Handed(signal(h1, value), value, "get") EXCEPT !.val = value]
     ELSE [h1 EXCEPT !.val = value, !.ret = NoProxy]

\* --------------------------------------------------- frames of the stack
F0 == [k |-> "", e |-> 0, pc |-> 0, acc |-> 0, rd |-> {}, ph |-> "", exc |-> "none",
       self |-> NoProxy, todo |-> <<>>, ls |-> <<>>, i |-> 0, cur |-> 0,
       via |-> "", why |-> <<0, "">>, rem |-> <<>>, un |-> FALSE, co |-> FALSE,
       lt |-> FALSE]
FnFrame(e) == [F0 EXCEPT !.k = "fn", !.e = e, !.pc = 1]
ComputeFrame(e, via, why) ==
  [F0 EXCEPT !.k = "compute", !.e = e, !.ph = "run", !.via = via, !.why = why]
SetFrame(self, todo) == [F0 EXCEPT !.k = "set", !.self = self, !.todo = todo]
NotifyFrame(ls, cur, via, why) ==
  [F0 EXCEPT !.k = "notify", !.ls = ls, !.i = 1, !.cur = cur, !.ph = "test",
             !.via = via, !.why = why]
\* acc of the frame of a call of batch: batchMode when batch was called
BatchFrame == [F0 EXCEPT !.k = "batch", !.ph = "body"]

Top == Last(frames)
TopIs(k) == frames # <<>> /\ Top.k = k
SetTop(f) == [frames EXCEPT ![Len(frames)] = f]
\* the application's own code is running: at top level or in a batch body
UserCtx == exc = "none" /\ (IF frames = <<>> THEN TRUE ELSE Top.k = "batch" /\ Top.ph = "body")
Created == {f \in Computes : signals[FnObj(f)] # NoProxy}

\* ------------------------------------------------ set trap, lines 77-88
\* The contexts the set trap passes to notifySet, in order, each a sequence
\* of property keys.
SetTodo_always(current, value, property) ==
  <<(<<property>>)>> \o (IF current = Undef THEN <<(<<iterate>>)>> ELSE <<>>)

SetTodo(current, value, property) ==
  (IF current # value THEN <<(<<property>>)>> ELSE <<>>)
  \o (IF current = Undef THEN <<(<<iterate>>)>> ELSE <<>>)

SetStore(st, target, property, value) ==
  IF st[target][property] # value THEN [st EXCEPT ![target][property] = value] ELSE st

\* ---------------------------------------------- notifySet, lines 127-152
RECURSIVE Concat(_, _, _)
Concat(lm, self, ctx) ==
  IF ctx = <<>> THEN <<>> ELSE getListeners(lm, self, Head(ctx)) \o Concat(lm, self, Tail(ctx))
\* new Set(listeners.filter(Boolean))
RECURSIVE Reversed(_)
Reversed(s) == IF s = <<>> THEN <<>> ELSE Append(Reversed(Tail(s)), Head(s))
NotifyListeners_reversed(lm, self, ctx) == Reversed(Union(<<>>, Concat(lm, self, ctx)))

NotifyListeners(lm, self, ctx) == Union(<<>>, Concat(lm, self, ctx))
\* addContext, lines 164-173, for every listener of every property of ctx
AddedKeys(lm, self, ctx, listener) ==
  {ctx[j] : j \in {j \in DOMAIN ctx : listener \in Range(getListeners(lm, self, ctx[j]))}}
addContextNeeds(nu, lm, self, ctx) ==
  [c \in Computes |-> nu[c] \/ AddedKeys(lm, self, ctx, c) # {}]
addContextKeys(cx, lm, self, ctx) ==
  [c \in Computes |-> cx[c] \cup AddedKeys(lm, self, ctx, c)]
\* let currentEffect = computeStack[computeStack.length-1], line 143
CurrentEffect_none(cs) == 0

CurrentEffect(cs) == IF cs = <<>> THEN 0 ELSE Last(cs)

\* if (!batchMode), lines 284 and 289
Drains_always(bm) == TRUE

Drains(bm) == bm = 0

\* if (batchMode), line 140
InBatch_never(bm) == FALSE

InBatch(bm) == bm # 0

\* The calls of notifySet the set trap makes while batchMode is not 0: each
\* flags the listeners of its context and merges them into batchedListeners;
\* no listener is called.  fl is [nu, cx, bl]: needsUpdate, context and
\* batchedListeners.
RECURSIVE BatchedSet(_, _, _, _)
BatchedSet(fl, lm, self, todo) ==
  IF todo = <<>> THEN fl
  ELSE LET ctx == Head(todo) IN
       BatchedSet([nu |-> addContextNeeds(fl.nu, lm, self, ctx),
                   cx |-> addContextKeys(fl.cx, lm, self, ctx),
                   bl |-> Union(fl.bl, NotifyListeners(lm, self, ctx))],
                  lm, self, Tail(todo))

\* The set trap after its store, called from the call stack fr with the
\* contexts todo.  In a batch its calls of notifySet call no listener and the
\* trap returns at once; outside a batch the trap stays on the call stack
\* while the listeners run.
SetTrap(fr, self, todo) ==
  IF todo # <<>> /\ InBatch(batchMode)
  THEN LET fl == BatchedSet([nu |-> needsUpdate, cx |-> context, bl |-> batchedListeners],
                            listenersMap, self, todo)
       IN /\ needsUpdate' = fl.nu
          /\ context' = fl.cx
          /\ batchedListeners' = fl.bl
          /\ frames' = fr
  ELSE /\ frames' = IF todo = <<>> THEN fr ELSE Append(fr, SetFrame(self, todo))
       /\ UNCHANGED <<needsUpdate, context, batchedListeners>>

\* ------------------------------------------------------------------- Init
Init ==
  /\ store = [o \in Objs |-> [p \in PropsOf(o) |->
                IF o = ObjA /\ p \in {"p", "q"} THEN 0
                ELSE IF o = ObjA /\ p = "n" THEN ObjB
                ELSE IF o = ObjB /\ p = "p" THEN 0
                ELSE IF o = ObjC /\ p = "time" THEN 0
                ELSE IF o = ObjM /\ p = "k" THEN 0
                ELSE IF o = ObjS /\ p = "data" THEN ObjD
                ELSE IF o = ObjS /\ p = "options" THEN ObjO
                ELSE IF o = ObjO /\ p = "sort" THEN ObjSo
                ELSE IF o = ObjO /\ p = "paging" THEN ObjPg
                ELSE IF o = ObjSo /\ p \in {"direction", "sortBy", "sortFn"} THEN 1
                ELSE IF o = ObjPg /\ p \in {"page", "pageSize", "max"} THEN 1
                ELSE IF o = ObjD /\ p \in {"0", "1"} THEN 0
                ELSE IF o = ObjD /\ p = "length" THEN 2
                ELSE Undef]]
  /\ signals = [o \in Objs \cup {FnObj(f) : f \in Computes} |-> NoProxy]
  /\ proxyCount = [o \in Objs |-> 0]
  /\ listenersMap = <<>>
  /\ computeMap = [c \in Computes |-> {}]
  /\ needsUpdate = [c \in Computes |-> FALSE]
  /\ context = [c \in Computes |-> {}]
  /\ computeStack = <<>> /\ signalStack = <<>> /\ effectStack = <<>>
  /\ effectMap = {}
  /\ batchMode = 0 /\ batchedListeners = <<>>
  /\ frames = <<>> /\ exc = "none"
  /\ returned = [o \in Objs |-> {}]
  /\ lastReads = [c \in Computes |-> {}]
  /\ log = <<>>
  /\ op = [kind |-> "init", c |-> 0, p |-> "", f |-> 0, err |-> "none", n |-> 0,
           selfw |-> FALSE, changed |-> {}]
  /\ reads0 = [c \in Computes |-> {}]
  /\ res0 = [c \in Computes |-> Undef]
  /\ variant = [c \in Computes |-> "effect"]
  /\ lastTick = [c \in Computes |-> -1]        \* let lastTick = -1, line 365
  /\ hasChanged = [c \in Computes |-> TRUE]    \* let hasChanged = true, line 366
  /\ runTick = [c \in Computes |-> -1]
  /\ throttled = [c \in Computes |-> 0]       \* let throttled = false, line 319
  /\ hasChange = [c \in Computes |-> TRUE]    \* let hasChange = true, line 320
  /\ now = 0
  /\ timers = {}
  /\ ranAt = [c \in Computes |-> -1]
  /\ tasks = <<>>
  /\ lastVal = [c \in Computes |-> Undef]

\* ------------------------------------------------------------ bookkeeping
H == [signals |-> signals, proxyCount |-> proxyCount, returned |-> returned,
      listenersMap |-> listenersMap, computeMap |-> computeMap, ret |-> NoProxy, val |-> 0]
SetH(h) ==
  /\ signals' = h.signals
  /\ proxyCount' = h.proxyCount
  /\ returned' = h.returned
  /\ listenersMap' = h.listenersMap
  /\ computeMap' = h.computeMap
hvars == <<signals, proxyCount, returned, listenersMap, computeMap>>
stacks == <<computeStack, signalStack>>
flags == <<needsUpdate, context>>
batchvars == <<batchMode, batchedListeners>>

\* A top-level call starts when the application acts on an empty call stack.
AtTop == frames = <<>>
LogBase == IF AtTop THEN <<>> ELSE log
Run(e, via) == [e |-> e, via |-> via, bm |-> batchMode]
\* what a changing call changes: the property and, when the call adds or
\* removes the property, the key set of the container, named by iterate
Changes(kind, c, p) ==
  {<<c, p>>} \cup (IF kind = "delete" \/ store[c][p] = Undef THEN {<<c, iterate>>} ELSE {})
OpStart(kind, c, p, chg, f) ==
  /\ op' = IF AtTop
            THEN [kind |-> kind, c |-> c, p |-> p, f |-> f, err |-> "none", n |-> 0,
                  selfw |-> FALSE, changed |-> IF chg THEN Changes(kind, c, p) ELSE {}]
            ELSE [op EXCEPT !.n = IF kind = "batch" THEN @ ELSE @ + 1,
                            !.changed = IF chg THEN @ \cup Changes(kind, c, p) ELSE @]
  /\ reads0' = IF AtTop THEN lastReads ELSE reads0
  /\ res0' = IF AtTop THEN [e \in Computes |-> store[ResObj(e)]["current"]] ELSE res0

\* --------------------------------------- computeEffect2, lines 237-258
\* signalStack.findIndex((s) => s == connectedSignal) !== -1
OnSignalStack_never(ss, self) == FALSE

OnSignalStack(ss, self) == self \in Range(ss)

\* computeEffect2 with the two pushes made before the cyclic-dependency check
computeEffect2_pushFirst(fr, lm, e, self, via, why) ==
  IF OnSignalStack(signalStack, self)
  THEN /\ exc' = "Cyclical"
       /\ listenersMap' = lm
       /\ frames' = fr
       /\ log' = LogBase
       /\ computeStack' = Append(computeStack, e)
       /\ signalStack' = Append(signalStack, self)
  ELSE /\ listenersMap' = clearListeners(lm, computeMap, e)
       /\ computeStack' = Append(computeStack, e)
       /\ signalStack' = Append(signalStack, self)
       /\ frames' = fr \o <<ComputeFrame(e, via, why), FnFrame(e)>>
       /\ log' = Append(LogBase, Run(e, via))
       /\ UNCHANGED exc

\* The call computeEffect2() of computation e up to the call of fn: the
\* cyclic-dependency check, clearListeners and the two pushes.  fr is the
\* call stack of the caller.
computeEffect2(fr, lm, e, self, via, why) ==
  IF OnSignalStack(signalStack, self)
  THEN /\ exc' = "Cyclical"
       /\ listenersMap' = lm
       /\ frames' = fr
       /\ log' = LogBase
       /\ UNCHANGED stacks
  ELSE /\ listenersMap' = clearListeners(lm, computeMap, e)
       /\ computeStack' = Append(computeStack, e)
       /\ signalStack' = Append(signalStack, self)
       /\ frames' = fr \o <<ComputeFrame(e, via, why), FnFrame(e)>>
       /\ log' = Append(LogBase, Run(e, via))
       /\ UNCHANGED exc

\* computeStack.pop(), signalStack.pop(), lines 248-249
Pop_keep(s) == s

Pop(s) == Front(s)

\* The finally block, lines 247-257: both pops, then connectedSignal.current =
\* result through the set trap of the result Signal.  pending is the
\* exception the block was entered with.
Finally(fr, e, result, pending) ==
  LET self == signals[FnObj(e)]
      current == store[ResObj(e)]["current"]
  IN /\ computeStack' = Pop(computeStack)
     /\ signalStack' = IF variant[e] = "clock" THEN signalStack ELSE Pop(signalStack)
     /\ hasChange' = IF variant[e] = "throttled" THEN [hasChange EXCEPT ![e] = FALSE]
                                                ELSE hasChange
     /\ store' = SetStore(store, ResObj(e), "current", result)
     /\ SetTrap(Append(fr, [ComputeFrame(e, "", <<0, "">>) EXCEPT !.ph = "finally",
                                                                !.exc = pending]),
                self, SetTodo(current, result, "current"))

\* ----------------------------------------------- clockEffect, lines 357-396
\* The two tests of lines 368 and 369: call fn, only advance lastTick, or
\* only set hasChanged.
ClockGate_changeOnly(lt, time, hc) == IF hc THEN "run" ELSE "mark"

ClockGate(lt, time, hc) ==
  IF lt < time THEN (IF hc THEN "run" ELSE "advance") ELSE "mark"

\* The call computeEffect2() of the clock-gated computation e up to the call
\* of fn, or up to its return when fn is not called.  clock is a Signal: each
\* clock.time is a read through the get trap, the one of line 372 with e on
\* the Compute Stack, the others with the caller's Compute Stack.  Nothing
\* is pushed on the Signal Stack and nothing is checked against it.  fr is
\* the call stack of the caller, h the state the reads act on.
clockCompute(fr, h, e, via, why) ==
  LET clock == h.signals[ObjC]
      h1 == get(h, clock, "time", computeStack, store)
      gate == ClockGate(lastTick[e], h1.val, hasChanged[e])
  IN IF gate # "mark"
     THEN IF gate = "run"
          THEN LET cs == Append(computeStack, e)
                   lm == clearListeners(h1.listenersMap, h1.computeMap, e)
                   h2 == get([h1 EXCEPT !.listenersMap = lm], clock, "time", cs, store)
               IN /\ listenersMap' = h2.listenersMap
                  /\ computeMap' = h2.computeMap
                  /\ computeStack' = cs
                  /\ lastTick' = [lastTick EXCEPT ![e] = h2.val]
                  /\ runTick' = [runTick EXCEPT ![e] = h2.val]
                  /\ frames' = fr \o <<ComputeFrame(e, via, why),
                                       [FnFrame(e) EXCEPT !.rd = {<<ObjC, "time">>}]>>
                  /\ log' = Append(LogBase, Run(e, via))
                  /\ UNCHANGED <<signalStack, exc, hasChanged>>
          ELSE LET h2 == get(h1, clock, "time", computeStack, store)
               IN /\ listenersMap' = h2.listenersMap
                  /\ computeMap' = h2.computeMap
                  /\ lastTick' = [lastTick EXCEPT ![e] = h2.val]
                  /\ frames' = fr
                  /\ log' = LogBase
                  /\ UNCHANGED <<stacks, exc, hasChanged, runTick>>
     ELSE /\ listenersMap' = h1.listenersMap
          /\ computeMap' = h1.computeMap
          /\ hasChanged' = [hasChanged EXCEPT ![e] = TRUE]
          /\ frames' = fr
          /\ log' = LogBase
          /\ UNCHANGED <<stacks, exc, lastTick, runTick>>

\* ------------------------------------------- throttledEffect, lines 307-356
Window == 2        \* throttleTime: every throttledEffect call passes this period

\* throttled && throttled > Date.now(), line 325
Cooling_never(t, time) == FALSE

Cooling(t, time) == t # 0 /\ t > time

\* if (hasChange), line 351
TimerRuns_never(hc) == FALSE

TimerRuns(hc) == hc

\* The call computeEffect2() of the throttled computation e up to the call
\* of fn, lines 321-333: the cyclic-dependency check, the test of the
\* cooldown, then as for effect().
throttledCompute(fr, e, via, why) ==
  LET self == signals[FnObj(e)] IN
  IF ~OnSignalStack(signalStack, self) /\ Cooling(throttled[e], now)
  THEN /\ hasChange' = [hasChange EXCEPT ![e] = TRUE]
       /\ frames' = fr
       /\ log' = LogBase
       /\ UNCHANGED <<listenersMap, stacks, exc, throttled, now, ranAt>>
  ELSE /\ computeEffect2(fr, listenersMap, e, self, via, why)
       /\ ranAt' = IF OnSignalStack(signalStack, self) THEN ranAt
                                                        ELSE [ranAt EXCEPT ![e] = now]
       /\ UNCHANGED <<throttled, hasChange, now>>

\* listener(): the call of the computeEffect2 closure of computation e
Call(fr, e, via, why) ==
  IF variant[e] = "clock"
  THEN clockCompute(fr, H, e, via, why) /\ UNCHANGED <<thrv, asyncv>>
  ELSE IF variant[e] = "throttled"
  THEN throttledCompute(fr, e, via, why) /\ UNCHANGED <<computeMap, clockv, asyncv, timers>>
  ELSE /\ computeEffect2(fr, listenersMap, e, signals[FnObj(e)], via, why)
       /\ UNCHANGED <<computeMap, clockv, asyncv, thrv>>

\* ------------------------------------------------ the application's calls
Writable == {<<ObjA, "p">>, <<ObjA, "q">>, <<ObjB, "p">>, <<ObjC, "time">>,
             <<ObjD, "0">>, <<ObjD, "1">>, <<ObjPg, "page">>, <<ObjSo, "direction">>}

\* signal(c)[p] = v
UserWrite(c, p, v) ==
  /\ UserCtx
  /\ <<c, p>> \in Writable
  /\ AtTop \/ op.n < MaxBatchOps
  /\ LET h == UserSignal(H, c) IN
       /\ SetH(h)
       /\ store' = SetStore(store, c, p, v)
       /\ SetTrap(frames, h.ret, SetTodo(store[c][p], v, p))
       /\ OpStart("write", c, p, store[c][p] # v, 0)
  /\ log' = LogBase
  /\ UNCHANGED <<stacks, batchMode, effectStack, effectMap, exc, lastReads>>
  /\ UNCHANGED ext

\* A value that is a Proxy: the reference of the n-th Proxy of target t
Ref(proxy) == 100 * proxy[2] + proxy[1]
IsSignalRef(v) == v >= 100
\* value?.[Symbol.xRay] || value, line 78: the get trap returns the target
\* of a Proxy for Symbol.xRay, lines 39-41
xRay_identity(v) == v

xRay(v) == IF IsSignalRef(v) THEN v % 100 ELSE v

\* signal(c)[p] = signal(d)
UserWriteSignal(c, p, d) ==
  /\ UserCtx
  /\ AtTop \/ op.n < MaxBatchOps
  /\ LET h0 == UserSignal(H, c)
         h1 == UserSignal(h0, d)
         value == xRay(Ref(h1.ret))
     IN /\ SetH(h1)
        /\ store' = SetStore(store, c, p, value)
        /\ SetTrap(frames, h0.ret, SetTodo(store[c][p], value, p))
        /\ OpStart("write", c, p, store[c][p] # value, 0)
  /\ log' = LogBase
  /\ UNCHANGED <<stacks, batchMode, effectStack, effectMap, exc, lastReads>>
  /\ UNCHANGED ext

\* signal(c)[p] read by the application outside any effect function
UserRead(c, p) ==
  /\ UserCtx
  /\ AtTop \/ op.n < MaxBatchOps
  /\ LET h0 == UserSignal(H, c) IN SetH(get(h0, h0.ret, p, computeStack, store))
  /\ OpStart("read", c, p, FALSE, 0)
  /\ log' = LogBase
  /\ UNCHANGED <<store, stacks, flags, batchvars, frames, effectStack, effectMap, exc,
                 lastReads>>
  /\ UNCHANGED ext

\* signal(c).set(k, v) on a Map: the get trap for "set" returns the wrapper
\* of lines 56-66, which calls Map.prototype.set on the target and then
\* notifySet for "size", if the size changed, and for the context object of
\* line 63, of which makeContext's for...in keeps the string keys
MapContext == <<"entries", "forEach", "has", "keys", "values">>
MapTodo(sizeChanged) == (IF sizeChanged THEN <<(<<"size">>)>> ELSE <<>>) \o <<MapContext>>
MapSet(c, k, v) ==
  /\ UserCtx
  /\ AtTop \/ op.n < MaxBatchOps
  /\ LET h0 == UserSignal(H, c)
         h == notifyGet(h0, h0.ret, "set", computeStack)
     IN /\ SetH([h EXCEPT !.ret = h0.ret])
        /\ store' = SetStore(store, c, k, v)
        /\ SetTrap(frames, h0.ret, MapTodo(store[c][k] = Undef))
        /\ OpStart("write", c, k, store[c][k] # v, 0)
  /\ log' = LogBase
  /\ UNCHANGED <<stacks, batchMode, effectStack, effectMap, exc, lastReads>>
  /\ UNCHANGED ext

\* delete signal(c)[p]: the deleteProperty trap, lines 96-104
DeleteTodo(current, property) == IF current # Undef THEN <<(<<property>>)>> ELSE <<>>
UserDelete(c, p) ==
  /\ UserCtx
  /\ AtTop \/ op.n < MaxBatchOps
  /\ LET h == UserSignal(H, c) IN
       /\ SetH(h)
       /\ store' = SetStore(store, c, p, Undef)
       /\ SetTrap(frames, h.ret, DeleteTodo(store[c][p], p))
       /\ OpStart("delete", c, p, store[c][p] # Undef, 0)
  /\ log' = LogBase
  /\ UNCHANGED <<stacks, batchMode, effectStack, effectMap, exc, lastReads>>
  /\ UNCHANGED ext

\* Object.defineProperty(signal(c), p, {value: v, ...}): the defineProperty
\* trap, lines 105-111, up to its call of notifySet; the property is defined
\* by DefineStep, when notifySet has returned
DefineTodo(current) == IF current = Undef THEN <<(<<iterate>>)>> ELSE <<>>
DefineFrame(self, p, v) ==
  [F0 EXCEPT !.k = "define", !.self = self, !.why = <<Target(self), p>>, !.acc = v]
UserDefine(c, p, v) ==
  /\ UserCtx
  /\ AtTop \/ op.n < MaxBatchOps
  /\ LET h == UserSignal(H, c) IN
       /\ SetH(h)
       /\ SetTrap(Append(frames, DefineFrame(h.ret, p, v)), h.ret, DefineTodo(store[c][p]))
       /\ OpStart("define", c, p, store[c][p] # v, 0)
  /\ log' = LogBase
  /\ UNCHANGED <<store, stacks, batchMode, effectStack, effectMap, exc, lastReads>>
  /\ UNCHANGED ext

\* return Object.defineProperty(target, property, descriptor), line 110
DefineStep ==
  /\ exc = "none" /\ TopIs("define")
  /\ store' = SetStore(store, Top.why[1], Top.why[2], Top.acc)
  /\ frames' = Front(frames)
  /\ UNCHANGED <<hvars, stacks, flags, effectStack, effectMap, batchvars, exc,
                 lastReads, log, op, reads0, res0>>
  /\ UNCHANGED ext

\* effect(f), lines 225-263
effect(f) ==
  /\ UserCtx
  /\ Needs(f) \subseteq Created
  /\ AtTop \/ op.n < MaxBatchOps
  /\ OpStart("effect", 0, "", FALSE, f)
  /\ IF f \in Range(effectStack)
     THEN /\ exc' = "Recursive"
          /\ log' = LogBase
          /\ UNCHANGED <<store, hvars, stacks, effectStack, effectMap, frames>>
     ELSE /\ Len(effectStack) < MaxEffects
          /\ effectStack' = Append(effectStack, f)
          /\ store' = [store EXCEPT ![ResObj(f)]["current"] = Null]
          /\ LET h == Handed(signal(H, ResObj(f)), ResObj(f), "effect") IN
               /\ signals' = [h.signals EXCEPT ![FnObj(f)] = h.ret]
               /\ proxyCount' = h.proxyCount
               /\ returned' = h.returned
               /\ effectMap' = effectMap \cup {h.ret}
               /\ computeEffect2(frames, listenersMap, f, h.ret, "create", <<0, "">>)
          /\ UNCHANGED computeMap
  /\ UNCHANGED <<flags, batchvars, lastReads>>
  /\ UNCHANGED ext

\* ------------------------------------------------- the set trap's notifySet
SetStep ==
  /\ exc = "none" /\ TopIs("set")
  /\ IF Top.todo = <<>>
     THEN /\ frames' = Front(frames)
          /\ UNCHANGED <<flags, batchedListeners>>
     ELSE LET ctx == Head(Top.todo)
              ls == NotifyListeners(listenersMap, Top.self, ctx)
              rest == SetTop([Top EXCEPT !.todo = Tail(@)])
          IN /\ needsUpdate' = addContextNeeds(needsUpdate, listenersMap, Top.self, ctx)
             /\ context' = addContextKeys(context, listenersMap, Top.self, ctx)
             /\ IF InBatch(batchMode)
                THEN /\ batchedListeners' = Union(batchedListeners, ls)
                     /\ frames' = rest
                ELSE /\ frames' = Append(rest, NotifyFrame(ls, CurrentEffect(computeStack),
                                           "notify", <<Target(Top.self), Head(ctx)>>))
                     /\ UNCHANGED batchedListeners
  /\ UNCHANGED <<store, hvars, stacks, effectStack, effectMap, batchMode, exc,
                 lastReads, log, op, reads0, res0>>
  /\ UNCHANGED ext

\* One turn of the loop over the listeners, lines 144-149 and 300-305: the
\* test and, when it fails, clearContext.
NotifyStep ==
  /\ exc = "none" /\ TopIs("notify") /\ Top.ph = "test"
  /\ IF Top.i > Len(Top.ls)
     THEN /\ frames' = Front(frames)
          /\ UNCHANGED <<listenersMap, computeMap, stacks, flags, exc, log, clockv, asyncv, thrv>>
     ELSE LET listener == Top.ls[Top.i] IN
          IF listener # Top.cur /\ needsUpdate[listener]
          THEN /\ Call(SetTop([Top EXCEPT !.ph = "called"]), listener, Top.via, Top.why)
               /\ UNCHANGED flags
          ELSE /\ needsUpdate' = [needsUpdate EXCEPT ![listener] = FALSE]
               /\ context' = [context EXCEPT ![listener] = {}]
               /\ frames' = SetTop([Top EXCEPT !.i = @ + 1])
               /\ UNCHANGED <<listenersMap, computeMap, stacks, exc, log, clockv, asyncv, thrv>>
  /\ UNCHANGED <<store, signals, proxyCount, returned, effectStack, effectMap,
                 batchvars, lastReads, op, reads0, res0, variant>>

\* listener() returned: clearContext(listener) and the next turn
NotifyResume ==
  /\ exc = "none" /\ TopIs("notify") /\ Top.ph = "called"
  /\ needsUpdate' = [needsUpdate EXCEPT ![Top.ls[Top.i]] = FALSE]
  /\ context' = [context EXCEPT ![Top.ls[Top.i]] = {}]
  /\ frames' = SetTop([Top EXCEPT !.i = @ + 1, !.ph = "test"])
  /\ UNCHANGED <<store, hvars, stacks, effectStack, effectMap, batchvars, exc,
                 lastReads, log, op, reads0, res0>>
  /\ UNCHANGED ext

\* ------------------------------------------------ the effect function's body
\* The reads of one instruction: the state they leave, the value they add
\* to the accumulator and the <<object, property>> pairs they read.
\* The arrays of two rows the effects of the view-model return, as numbers
\* below ObjA: Base * first row + second row.  toSorted with sortFn, lines 965-988
Base == MaxVal + 1
Min(a, b) == IF a <= b THEN a ELSE b
Max(a, b) == IF a >= b THEN a ELSE b
Sorted(a, b, direction) ==
  IF direction = 1 THEN Base * Min(a, b) + Max(a, b) ELSE Base * Max(a, b) + Min(a, b)
\* slice((page - 1) * pageSize, (page - 1) * pageSize + pageSize) at pageSize 1
PageOf(rows, page) ==
  IF page = 1 THEN rows \div Base ELSE IF page = 2 THEN rows % Base ELSE 0
\* Math.ceil(length / pageSize)
Ceil(length, pageSize) == (length + pageSize - 1) \div pageSize

\* Reflect.ownKeys(target) / Object.hasOwn(target, property)
OwnKeys(st, c) == {p \in DOMAIN st[c] : st[c][p] # Undef}

ReadOf(ins, h, cs, st) ==
  CASE ins.op = "read" ->
         LET h1 == UserSignal(h, ins.c)
             h2 == get(h1, h1.ret, ins.p, cs, st)
         IN [h |-> h2, add |-> Num(h2.val), rd |-> {<<ins.c, ins.p>>}]
    [] ins.op = "read2" ->
         LET h1 == UserSignal(h, ins.c)
             h2 == get(h1, h1.ret, ins.p, cs, st)
             h3 == get(h2, h2.ret, ins.p2, cs, st)
         IN IF h2.ret # NoProxy
            THEN [h |-> h3, add |-> Num(h3.val), rd |-> {<<ins.c, ins.p>>, <<h2.val, ins.p2>>}]
            ELSE [h |-> h2, add |-> 0, rd |-> {<<ins.c, ins.p>>}]
    [] ins.op = "readRes" ->
         LET h2 == get(h, h.signals[FnObj(ins.g)], "current", cs, st)
         IN [h |-> h2, add |-> Num(h2.val), rd |-> {<<ResObj(ins.g), "current">>}]
    [] ins.op = "sel" ->
         LET h1 == UserSignal(h, ins.c)
             h2 == get(h1, h1.ret, ins.p, cs, st)
             c == IF Num(h2.val) # 0 THEN ins.c2 ELSE ins.c3
             p == IF Num(h2.val) # 0 THEN ins.p2 ELSE ins.p3
             h3 == UserSignal(h2, c)
             h4 == get(h3, h3.ret, p, cs, st)
         IN [h |-> h4, add |-> Num(h4.val), rd |-> {<<ins.c, ins.p>>, <<c, p>>}]
    [] ins.op = "sort" ->           \* reads of the raw array: no trap
         [h |-> h, add |-> Sorted(st[ins.c]["0"], st[ins.c]["1"], st[ObjSo]["direction"]),
          rd |-> {}]
    [] ins.op = "slice" ->
         LET h2 == get(h, h.signals[FnObj(ins.g)], "current", cs, st)
         IN [h |-> h2, add |-> PageOf(Num(h2.val), st[ObjPg]["page"]),
             rd |-> {<<ResObj(ins.g), "current">>}]
    [] ins.op = "mapget" ->         \* the get trap for "get", lines 39-57, and the call
         LET h1 == UserSignal(h, ins.c)
             h2 == notifyGet(h1, h1.ret, "get", cs)
         IN [h |-> h2, add |-> Num(st[ins.c][ins.p]), rd |-> {<<ins.c, ins.p>>}]
    [] ins.op = "keys" ->           \* the ownKeys trap, lines 112-116
         LET h1 == UserSignal(h, ins.c)
             h2 == notifyGet(h1, h1.ret, iterate, cs)
         IN [h |-> h2, add |-> Cardinality(OwnKeys(st, ins.c)), rd |-> {<<ins.c, iterate>>}]
    [] ins.op = "has" ->            \* the has trap, lines 89-95
         LET h1 == UserSignal(h, ins.c)
             h2 == notifyGet(h1, h1.ret, ins.p, cs)
         IN [h |-> h2, add |-> IF ins.p \in OwnKeys(st, ins.c) THEN 1 ELSE 0,
             rd |-> {<<ins.c, ins.p>>}]
    [] OTHER -> [h |-> h, add |-> 0, rd |-> {}]

\* fn reaches an await: the call of the async function returns a Promise
Suspends_never(ins) == FALSE

Suspends(ins) == ins.op = "await"

\* untracked, line 399: computeStack = []
untracked_keep(cs) == cs

untracked(cs) == <<>>

\* computeStack = remember, line 403
Restore_none(remember) == <<>>

Restore(remember) == remember

FnStep ==
  /\ exc = "none" /\ TopIs("fn") /\ Top.pc <= Len(Prog(Top.e))
  /\ Prog(Top.e)[Top.pc].op \notin {"ubegin", "uend", "bbegin", "bend"}
  /\ ~Suspends(Prog(Top.e)[Top.pc])
  /\ LET ins == Prog(Top.e)[Top.pc]
         next == [Top EXCEPT !.pc = @ + 1]
     IN IF ins.op \in WriteOps \/ (ins.op = "advance" /\ store[ObjC]["time"] < MaxTick)
        THEN LET h == UserSignal(H, ins.c)
                 value ==
                   CASE ins.op = "advance" -> store[ObjC]["time"] + 1
                     [] ins.op = "setmax" ->
                          Ceil(Num(store[store[ObjS]["data"]]["length"]), store[ObjPg]["pageSize"])
                     [] ins.op = "clamp" ->
                          Max(1, Min(store[ObjPg]["max"], store[ObjPg]["page"]))
                     [] OTHER -> (Top.acc + ins.k) % Modulus
             IN /\ SetH(h)
                /\ store' = SetStore(store, ins.c, ins.p, value)
                /\ SetTrap(SetTop(next), h.ret, SetTodo(store[ins.c][ins.p], value, ins.p))
                /\ op' = [op EXCEPT !.selfw = @ \/ (<<ins.c, ins.p>> \in Top.rd
                                                     /\ store[ins.c][ins.p] # value)]
        ELSE LET r == ReadOf(ins, H, computeStack, store) IN
                /\ SetH(r.h)
                /\ frames' = SetTop([next EXCEPT
                                       !.acc = IF ins.op = "dbl" THEN 2 * @
                                               ELSE IF ins.op \in {"sort", "slice"} THEN r.add
                                               ELSE @ + r.add,
                                       !.rd = IF Top.un \/ Top.co THEN @ ELSE @ \cup r.rd])
                /\ UNCHANGED <<store, op, flags, batchedListeners>>
  /\ UNCHANGED <<stacks, effectStack, effectMap, batchMode, exc, lastReads, log, reads0, res0>>
  /\ UNCHANGED ext

\* fn returned its accumulator: the finally block of computeEffect2
FnReturn ==
  /\ exc = "none" /\ TopIs("fn") /\ Top.pc > Len(Prog(Top.e)) /\ ~Top.co
  /\ Finally(SubSeq(frames, 1, Len(frames) - 2), Top.e, Top.acc, "none")
  /\ lastReads' = [lastReads EXCEPT ![Top.e] = Top.rd]
  /\ UNCHANGED <<hvars, effectStack, effectMap, batchMode, exc, log, op, reads0, res0>>
  /\ UNCHANGED <<variant, clockv, asyncv, throttled, now, timers, ranAt>>

\* the finally block is done: computeEffect2 returns, or rethrows the
\* exception the block was entered with
ComputeReturn ==
  /\ exc = "none" /\ TopIs("compute") /\ Top.ph = "finally" /\ variant[Top.e] = "effect"
  /\ frames' = Front(frames)
  /\ exc' = Top.exc
  /\ UNCHANGED <<store, hvars, stacks, flags, effectStack, effectMap, batchvars,
                 lastReads, log, op, reads0, res0>>
  /\ UNCHANGED ext

\* clockEffect(f, clock), lines 357-396.  The application passes each
\* function to one of effect, throttledEffect and clockEffect, once.
clockEffect(f) ==
  /\ UserCtx
  /\ f \notin Created /\ Cardinality(Created) < MaxEffects
  /\ Needs(f) \subseteq Created
  /\ AtTop \/ op.n < MaxBatchOps
  /\ OpStart("clockEffect", 0, "", FALSE, f)
  /\ variant' = [variant EXCEPT ![f] = "clock"]
  /\ store' = [store EXCEPT ![ResObj(f)]["current"] = Null]
  /\ LET h0 == UserSignal(H, ObjC)
         h1 == Handed(signal(h0, ResObj(f)), ResObj(f), "effect")
         h2 == [h1 EXCEPT !.signals[FnObj(f)] = h1.ret]
     IN /\ signals' = h2.signals
        /\ proxyCount' = h2.proxyCount
        /\ returned' = h2.returned
        /\ clockCompute(frames, h2, f, "create", <<0, "">>)
  /\ UNCHANGED <<flags, batchvars, effectStack, effectMap, lastReads, thrv, asyncv>>

\* the finally block of the clock-gated computeEffect2 is done: hasChanged =
\* false, line 384
ClockReturn ==
  /\ exc = "none" /\ TopIs("compute") /\ Top.ph = "finally" /\ variant[Top.e] = "clock"
  /\ hasChanged' = [hasChanged EXCEPT ![Top.e] = FALSE]
  /\ frames' = Front(frames)
  /\ exc' = Top.exc
  /\ UNCHANGED <<store, hvars, stacks, flags, effectStack, effectMap, batchvars,
                 lastReads, log, op, reads0, res0, variant, lastTick, runTick, thrv, asyncv>>

\* clock.time++
ClockAdvance ==
  /\ store[ObjC]["time"] < MaxTick
  /\ UserWrite(ObjC, "time", store[ObjC]["time"] + 1)

\* throttledEffect(f, Window), lines 307-356
throttledEffect(f) ==
  /\ UserCtx
  /\ f \notin Created /\ Cardinality(Created) < MaxEffects
  /\ Needs(f) \subseteq Created
  /\ AtTop \/ op.n < MaxBatchOps
  /\ OpStart("throttledEffect", 0, "", FALSE, f)
  /\ variant' = [variant EXCEPT ![f] = "throttled"]
  /\ effectStack' = Append(effectStack, f)
  /\ store' = [store EXCEPT ![ResObj(f)]["current"] = Null]
  /\ LET h == Handed(signal(H, ResObj(f)), ResObj(f), "effect") IN
       /\ signals' = [h.signals EXCEPT ![FnObj(f)] = h.ret]
       /\ proxyCount' = h.proxyCount
       /\ returned' = h.returned
       /\ computeEffect2(frames, listenersMap, f, h.ret, "create", <<0, "">>)
  /\ ranAt' = [ranAt EXCEPT ![f] = now]
  /\ UNCHANGED <<computeMap, flags, batchvars, effectMap, lastReads, clockv, asyncv,
                 throttled, hasChange, now, timers>>

\* the finally block of the throttled computeEffect2 is done: when it was
\* entered without an exception, lines 347-352 start the cooldown and the
\* timer; otherwise the exception is rethrown
ThrottledReturn ==
  /\ exc = "none" /\ TopIs("compute") /\ Top.ph = "finally" /\ variant[Top.e] = "throttled"
  /\ frames' = Front(frames)
  /\ exc' = Top.exc
  /\ IF Top.exc = "none"
     THEN /\ throttled' = [throttled EXCEPT ![Top.e] = now + Window]
          /\ timers' = timers \cup {<<Top.e, now + Window>>}
     ELSE UNCHANGED <<throttled, timers>>
  /\ UNCHANGED <<store, hvars, stacks, flags, effectStack, effectMap, batchvars,
                 lastReads, log, op, reads0, res0, variant, clockv, asyncv, hasChange, now, ranAt>>

\* a setTimeout callback of lines 348-352 runs: the call stack is empty and
\* its time has come
TimerFire(e, due) ==
  /\ frames = <<>> /\ exc = "none"
  /\ <<e, due>> \in timers /\ due <= now
  /\ OpStart("timer", 0, "", FALSE, e)
  /\ IF TimerRuns(hasChange[e])
     THEN /\ throttledCompute(<<>>, e, "timer", <<0, "">>)
          /\ timers' = timers \ {<<e, due>>}
     ELSE /\ timers' = timers \ {<<e, due>>}
          /\ log' = LogBase
          /\ UNCHANGED <<listenersMap, stacks, exc, frames, throttled, hasChange, now, ranAt>>
  /\ UNCHANGED <<store, signals, proxyCount, returned, computeMap, flags, effectStack,
                 effectMap, batchvars, lastReads, variant, clockv, asyncv>>

\* destroy(R) for the result Signal R of computation f, lines 264-273.
\* effectMap.get(R) is the computeEffect2 function that effect() stored (a
\* function has no deref method: the call raises a TypeError), and is
\* undefined for the result of throttledEffect and clockEffect, which store
\* nothing: destroy returns at line 267.
destroy(f) ==
  /\ UserCtx
  /\ f \in Created
  /\ AtTop \/ op.n < MaxBatchOps
  /\ OpStart("destroy", 0, "", FALSE, f)
  /\ exc' = IF signals[FnObj(f)] \in effectMap THEN "TypeError" ELSE "none"
  /\ log' = LogBase
  /\ UNCHANGED <<store, hvars, stacks, flags, effectStack, effectMap, batchvars, frames,
                 lastReads>>
  /\ UNCHANGED ext

\* untracked(fn), lines 397-399: the call, up to the call of fn
UntrackedBegin ==
  /\ exc = "none" /\ TopIs("fn") /\ Top.pc <= Len(Prog(Top.e))
  /\ Prog(Top.e)[Top.pc].op = "ubegin"
  /\ frames' = SetTop([Top EXCEPT !.pc = @ + 1, !.rem = computeStack, !.un = TRUE])
  /\ computeStack' = untracked(computeStack)
  /\ UNCHANGED <<store, hvars, signalStack, flags, effectStack, effectMap, batchvars, exc,
                 lastReads, log, op, reads0, res0>>
  /\ UNCHANGED ext

\* untracked(fn), lines 402-404: fn returned, computeStack = remember
UntrackedEnd ==
  /\ exc = "none" /\ TopIs("fn") /\ Top.pc <= Len(Prog(Top.e))
  /\ Prog(Top.e)[Top.pc].op = "uend"
  /\ frames' = SetTop([Top EXCEPT !.pc = @ + 1, !.rem = <<>>, !.un = FALSE])
  /\ computeStack' = Restore(Top.rem)
  /\ UNCHANGED <<store, hvars, signalStack, flags, effectStack, effectMap, batchvars, exc,
                 lastReads, log, op, reads0, res0>>
  /\ UNCHANGED ext

\* batch(fn) called by an effect function, lines 274-278: batchMode++
FnBatchBegin ==
  /\ exc = "none" /\ TopIs("fn") /\ Top.pc <= Len(Prog(Top.e))
  /\ Prog(Top.e)[Top.pc].op = "bbegin"
  /\ batchMode' = batchMode + 1
  /\ frames' = SetTop([Top EXCEPT !.pc = @ + 1])
  /\ UNCHANGED <<store, hvars, stacks, flags, effectStack, effectMap, batchedListeners, exc,
                 lastReads, log, op, reads0, res0>>
  /\ UNCHANGED ext

\* the function passed to batch by an effect function returned: the finally
\* block, lines 279-292, and runBatchedListeners up to its loop
FnBatchEnd ==
  /\ exc = "none" /\ TopIs("fn") /\ Top.pc <= Len(Prog(Top.e))
  /\ Prog(Top.e)[Top.pc].op = "bend"
  /\ batchMode' = batchMode - 1
  /\ IF Drains(batchMode')
     THEN /\ batchedListeners' = <<>>
          /\ frames' = SetTop([Top EXCEPT !.pc = @ + 1])
                       \o <<NotifyFrame(batchedListeners, CurrentEffect(computeStack),
                                        "drain", <<0, "">>)>>
     ELSE /\ frames' = SetTop([Top EXCEPT !.pc = @ + 1])
          /\ UNCHANGED batchedListeners
  /\ UNCHANGED <<store, hvars, stacks, flags, effectStack, effectMap, exc,
                 lastReads, log, op, reads0, res0>>
  /\ UNCHANGED ext

\* ------------------------------------------------------ deferred results
Task(k, e, pc, acc) == [k |-> k, e |-> e, pc |-> pc, acc |-> acc, lt |-> TRUE]
Remove(s, i) == SubSeq(s, 1, i - 1) \o SubSeq(s, i + 1, Len(s))
\* a new run of e starts: the pending runs of e are no longer its most recent
Older(s, e) == [j \in DOMAIN s |-> IF s[j].k = "run" /\ s[j].e = e
                                  THEN [s[j] EXCEPT !.lt = FALSE] ELSE s[j]]

\* The async function fn of effect() reaches its await: its call returns a
\* Promise, and the finally block of computeEffect2, lines 247-253, pops both
\* stacks and registers the callback that will assign connectedSignal.current.
AwaitStep ==
  /\ exc = "none" /\ TopIs("fn") /\ Top.pc <= Len(Prog(Top.e))
  /\ Suspends(Prog(Top.e)[Top.pc])
  /\ ~Top.co /\ variant[Top.e] = "effect"
  /\ frames' = SubSeq(frames, 1, Len(frames) - 2)
  /\ computeStack' = Front(computeStack)
  /\ signalStack' = Front(signalStack)
  /\ tasks' = Append(Older(tasks, Top.e), Task("run", Top.e, Top.pc + 1, Top.acc))
  /\ lastReads' = [lastReads EXCEPT ![Top.e] = Top.rd]
  /\ UNCHANGED <<store, hvars, flags, effectStack, effectMap, batchvars, exc, log, op,
                 reads0, res0, variant, clockv, thrv, lastVal>>

\* what fn awaited settles: the rest of fn runs, on an empty call stack
AsyncResume(i) ==
  /\ frames = <<>> /\ exc = "none"
  /\ i \in DOMAIN tasks /\ tasks[i].k = "run"
  /\ OpStart("resume", 0, "", FALSE, tasks[i].e)
  /\ frames' = <<[FnFrame(tasks[i].e) EXCEPT !.pc = tasks[i].pc, !.acc = tasks[i].acc,
                                              !.co = TRUE, !.lt = tasks[i].lt]>>
  /\ tasks' = Remove(tasks, i)
  /\ log' = LogBase
  /\ UNCHANGED <<store, hvars, stacks, flags, effectStack, effectMap, batchvars, exc,
                 lastReads, variant, clockv, thrv, lastVal>>

\* the rest of fn returned: the Promise is fulfilled and the callback of
\* lines 251-253 runs, connectedSignal.current = result
AsyncReturn ==
  /\ exc = "none" /\ TopIs("fn") /\ Top.pc > Len(Prog(Top.e)) /\ Top.co
  /\ LET self == signals[FnObj(Top.e)]
         current == store[ResObj(Top.e)]["current"]
     IN /\ store' = SetStore(store, ResObj(Top.e), "current", Top.acc)
        /\ SetTrap(Front(frames), self, SetTodo(current, Top.acc, "current"))
  /\ lastVal' = IF Top.lt THEN [lastVal EXCEPT ![Top.e] = Top.acc] ELSE lastVal
  /\ UNCHANGED <<hvars, stacks, effectStack, effectMap, batchMode, exc, lastReads, log, op,
                 reads0, res0, variant, clockv, thrv, tasks>>

\* The async function passed to batch reaches its await: its call returns a
\* Promise and the finally block of batch, lines 280-287, registers the
\* callback; batchMode stays.
BatchAwait ==
  /\ UserCtx /\ TopIs("batch")
  /\ Len(tasks) < MaxPending
  /\ frames' = Front(frames)
  /\ tasks' = Append(tasks, Task("batch", 0, 0, 0))
  /\ UNCHANGED <<store, hvars, stacks, flags, effectStack, effectMap, batchvars, exc,
                 lastReads, log, op, reads0, res0, variant, clockv, thrv, lastVal>>

\* the Promise of the function passed to batch is fulfilled: the callback of
\* lines 281-286 runs
BatchSettle(i) ==
  /\ frames = <<>> /\ exc = "none"
  /\ i \in DOMAIN tasks /\ tasks[i].k = "batch"
  /\ OpStart("settle", 0, "", FALSE, 0)
  /\ tasks' = Remove(tasks, i)
  /\ batchMode' = batchMode - 1
  /\ IF Drains(batchMode')
     THEN /\ batchedListeners' = <<>>
          /\ frames' = <<NotifyFrame(batchedListeners, CurrentEffect(computeStack),
                                     "drain", <<0, "">>)>>
     ELSE UNCHANGED <<batchedListeners, frames>>
  /\ log' = LogBase
  /\ UNCHANGED <<store, hvars, stacks, flags, effectStack, effectMap, exc, lastReads,
                 variant, clockv, thrv, lastVal>>

\* the Promise of the function passed to batch is rejected: then() was given
\* no callback for that, line 281, nothing runs
BatchReject(i) ==
  /\ frames = <<>> /\ exc = "none"
  /\ i \in DOMAIN tasks /\ tasks[i].k = "batch"
  /\ OpStart("reject", 0, "", FALSE, 0)
  /\ tasks' = Remove(tasks, i)
  /\ log' = LogBase
  /\ UNCHANGED <<store, hvars, stacks, flags, effectStack, effectMap, batchvars, frames,
                 exc, lastReads, variant, clockv, thrv, lastVal>>

\* time passes
Tick ==
  /\ now < MaxTime
  /\ now' = now + 1
  /\ UNCHANGED <<store, hvars, stacks, flags, effectStack, effectMap, batchvars, frames,
                 exc, lastReads, log, op, reads0, res0, variant, clockv, asyncv, throttled,
                 hasChange, timers, ranAt>>

\* ----------------------------------------------------- batch, lines 274-306
BatchOpen(limit) ==
  /\ UserCtx
  /\ batchMode < limit
  /\ batchMode' = batchMode + 1
  /\ frames' = Append(frames, [BatchFrame EXCEPT !.acc = batchMode])
  /\ OpStart("batch", 0, "", FALSE, 0)
  /\ log' = LogBase
  /\ UNCHANGED <<store, hvars, stacks, flags, effectStack, effectMap, batchedListeners,
                 exc, lastReads>>
  /\ UNCHANGED ext

BatchBegin == BatchOpen(MaxBatch)

\* batch with its decrement and drain after the try statement, not in a
\* finally block: they are skipped when fn throws
BatchFinally_afterTry(pending) ==
  IF pending = "none"
  THEN /\ batchMode' = batchMode - 1
       /\ op' = IF batchMode = 1 THEN [op EXCEPT !.n = 0] ELSE op
       /\ IF Drains(batchMode')
          THEN /\ batchedListeners' = <<>>
               /\ frames' = SetTop([Top EXCEPT !.ph = "finally", !.exc = pending])
                            \o <<NotifyFrame(batchedListeners, CurrentEffect(computeStack),
                                             "drain", <<0, "">>)>>
          ELSE /\ frames' = SetTop([Top EXCEPT !.ph = "finally", !.exc = pending])
               /\ UNCHANGED batchedListeners
  ELSE /\ frames' = SetTop([Top EXCEPT !.ph = "finally", !.exc = pending])
       /\ UNCHANGED <<batchMode, op, batchedListeners>>

\* The finally block of batch: batchMode-- and, at 0, runBatchedListeners up
\* to its loop.
BatchFinally(pending) ==
  /\ batchMode' = batchMode - 1
  /\ op' = IF batchMode = 1 THEN [op EXCEPT !.n = 0] ELSE op
  /\ IF Drains(batchMode')
     THEN /\ batchedListeners' = <<>>
          /\ frames' = SetTop([Top EXCEPT !.ph = "finally", !.exc = pending])
                       \o <<NotifyFrame(batchedListeners, CurrentEffect(computeStack),
                                        "drain", <<0, "">>)>>
     ELSE /\ frames' = SetTop([Top EXCEPT !.ph = "finally", !.exc = pending])
          /\ UNCHANGED batchedListeners

\* the function passed to batch returns
BatchEnd ==
  /\ UserCtx /\ TopIs("batch")
  /\ BatchFinally("none")
  /\ UNCHANGED <<store, hvars, stacks, flags, effectStack, effectMap, exc,
                 lastReads, log, reads0, res0>>
  /\ UNCHANGED ext

\* the function passed to batch throws
BatchThrow ==
  /\ UserCtx /\ TopIs("batch")
  /\ exc' = "Error"
  /\ UNCHANGED <<store, hvars, stacks, flags, effectStack, effectMap, batchvars, frames,
                 lastReads, log, op, reads0, res0>>
  /\ UNCHANGED ext

BatchReturn ==
  /\ exc = "none" /\ TopIs("batch") /\ Top.ph = "finally"
  /\ frames' = Front(frames)
  /\ exc' = Top.exc
  /\ UNCHANGED <<store, hvars, stacks, flags, effectStack, effectMap, batchvars,
                 lastReads, log, op, reads0, res0>>
  /\ UNCHANGED ext

\* ------------------------------------------------------------- exceptions
\* let result, line 244: fn threw before the assignment of line 246, and the
\* finally block assigns undefined, whatever current was
ThrownResult_previous(current) == current

ThrownResult(current) == Undef

\* An exception leaves the innermost call.  Only computeEffect2 and batch
\* have a finally block; an exception thrown inside a finally block replaces
\* the one the block was entered with.
Unwind ==
  /\ exc # "none" /\ frames # <<>>
  /\ IF Top.k = "compute" /\ Top.ph = "run"
     THEN /\ Finally(Front(frames), Top.e, ThrownResult(store[ResObj(Top.e)]["current"]), exc)
          /\ exc' = "none"
          /\ UNCHANGED <<batchMode, op>>
     ELSE IF Top.k = "batch" /\ Top.ph = "body"
     THEN /\ BatchFinally(exc)
          /\ exc' = "none"
          /\ UNCHANGED <<store, stacks, flags, hasChange>>
     ELSE /\ frames' = Front(frames)
          /\ computeStack' = IF Top.k = "fn" /\ Top.un THEN Restore(Top.rem)
                                                        ELSE computeStack
          /\ UNCHANGED <<store, signalStack, flags, batchvars, exc, op, hasChange>>
  /\ UNCHANGED <<hvars, effectStack, effectMap, lastReads, log, reads0, res0>>
  /\ UNCHANGED <<variant, clockv, asyncv, throttled, now, timers, ranAt>>

\* the exception reaches the application's top-level call
Uncaught ==
  /\ exc # "none" /\ frames = <<>>
  /\ op' = [op EXCEPT !.err = exc]
  /\ exc' = "none"
  /\ UNCHANGED <<store, hvars, stacks, flags, effectStack, effectMap, batchvars, frames,
                 lastReads, log, reads0, res0>>
  /\ UNCHANGED ext

Next ==
  \/ \E c \in DataObjs, p \in DataProps, v \in 0..MaxVal : UserWrite(c, p, v)
  \/ \E f \in Fns : effect(f)
  \/ BatchBegin
  \/ BatchEnd
  \/ BatchThrow
  \/ SetStep
  \/ NotifyStep
  \/ NotifyResume
  \/ FnStep
  \/ FnReturn
  \/ ComputeReturn
  \/ BatchReturn
  \/ Unwind
  \/ Uncaught

Spec == Init /\ [][Next]_vars

\* An application that writes through Signals and calls effect(), and never
\* calls batch.
NextDirect ==
  \/ \E c \in DataObjs, p \in DataProps, v \in 0..MaxVal : UserWrite(c, p, v)
  \/ \E f \in Fns : effect(f)
  \/ SetStep
  \/ NotifyStep
  \/ NotifyResume
  \/ FnStep
  \/ FnReturn
  \/ ComputeReturn
  \/ Unwind
  \/ Uncaught

SpecDirect == Init /\ [][NextDirect]_vars

\* An application whose effect functions write nothing, that creates its
\* effects outside batch and that writes inside and outside batch; the
\* functions it passes to batch return.  Nothing throws while a call of the
\* runtime is active: the one error, of a second effect() call with the same
\* function, is raised at top level.
PureFns == {f \in Fns : IsPure(f)}
NextBatch ==
  \/ \E c \in DataObjs, p \in DataProps, v \in 0..MaxVal : UserWrite(c, p, v)
  \/ \E f \in PureFns : AtTop /\ effect(f)
  \/ BatchBegin
  \/ BatchEnd
  \/ SetStep
  \/ NotifyStep
  \/ NotifyResume
  \/ FnStep
  \/ FnReturn
  \/ ComputeReturn
  \/ BatchReturn
  \/ Uncaught

SpecBatch == Init /\ [][NextBatch]_vars

\* The same application calling batch inside the function it passes to
\* batch, down to MaxNest levels, and writing A.p and B.p.
NestFns == {1, 4}
NextNested ==
  \/ \E c \in DataObjs, v \in 0..MaxVal : UserWrite(c, "p", v)
  \/ \E f \in NestFns : AtTop /\ effect(f)
  \/ BatchOpen(MaxNest)
  \/ BatchEnd
  \/ SetStep
  \/ NotifyStep
  \/ NotifyResume
  \/ FnStep
  \/ FnReturn
  \/ ComputeReturn
  \/ BatchReturn
  \/ Uncaught

SpecNested == Init /\ [][NextNested]_vars

\* The same application when the functions it passes to batch return or
\* throw.
NextBatchThrow ==
  \/ \E c \in DataObjs, v \in 0..MaxVal : UserWrite(c, "p", v)
  \/ \E f \in NestFns : AtTop /\ effect(f)
  \/ BatchOpen(MaxNest)
  \/ BatchEnd
  \/ BatchThrow
  \/ SetStep
  \/ NotifyStep
  \/ NotifyResume
  \/ FnStep
  \/ FnReturn
  \/ ComputeReturn
  \/ BatchReturn
  \/ Unwind
  \/ Uncaught

SpecBatchThrow == Init /\ [][NextBatchThrow]_vars

\* An application of effects that read a property of a record, a property of
\* a nested record and an entry of a Map, which writes the properties and
\* sets the entry.
ContainerFns == {1, 3, MFn}
NextContainers ==
  \/ \E c \in DataObjs, v \in 0..MaxVal : UserWrite(c, "p", v)
  \/ \E v \in 0..MaxVal : MapSet(ObjM, "k", v)
  \/ \E f \in ContainerFns : effect(f)
  \/ SetStep
  \/ NotifyStep
  \/ NotifyResume
  \/ FnStep
  \/ FnReturn
  \/ ComputeReturn
  \/ Uncaught

SpecContainers == Init /\ [][NextContainers]_vars

\* An application of effects that list the keys of A, test whether A has the
\* key q and read A.q, which writes, deletes and defines A.q.
KeyFns == {4, KFn, HFn}
NextKeys ==
  \/ \E v \in 0..MaxVal : UserWrite(ObjA, "q", v)
  \/ UserDelete(ObjA, "q")
  \/ \E v \in 0..MaxVal : UserDefine(ObjA, "q", v)
  \/ \E f \in KeyFns : effect(f)
  \/ SetStep
  \/ NotifyStep
  \/ NotifyResume
  \/ DefineStep
  \/ FnStep
  \/ FnReturn
  \/ ComputeReturn
  \/ Uncaught

SpecKeys == Init /\ [][NextKeys]_vars

\* An application of two clock-gated effects that write what the other reads,
\* which writes A.p and B.p and advances the clock.  No call of this application throws.
ClockFns == {5, 6}
NextClock ==
  \/ \E c \in DataObjs, v \in 0..MaxVal : UserWrite(c, "p", v)
  \/ ClockAdvance
  \/ \E f \in ClockFns : clockEffect(f)
  \/ SetStep
  \/ NotifyStep
  \/ NotifyResume
  \/ FnStep
  \/ FnReturn
  \/ ClockReturn

SpecClock == Init /\ [][NextClock]_vars

\* The same application on an engine that runs every call to its end: a
\* step of a call that has begun is taken.
ClockSteps == SetStep \/ NotifyStep \/ NotifyResume \/ FnStep \/ FnReturn \/ ClockReturn
SpecClockFair == SpecClock /\ WF_vars(ClockSteps)

\* An application of a clock-gated effect and a plain effect that reads what
\* the first writes and advances the clock, which writes A.p and B.p.
NextClockRun ==
  \/ \E c \in DataObjs, v \in 0..MaxVal : UserWrite(c, "p", v)
  \/ \E f \in {5} : clockEffect(f)
  \/ \E f \in {CFn} : effect(f)
  \/ SetStep
  \/ NotifyStep
  \/ NotifyResume
  \/ FnStep
  \/ FnReturn
  \/ ComputeReturn
  \/ ClockReturn
  \/ Unwind
  \/ Uncaught

SpecClockRun == Init /\ [][NextClockRun]_vars

\* An application of one clock-gated effect that writes nothing, which
\* writes and advances the clock inside and outside batch.
NextClockBatch ==
  \/ \E c \in DataObjs, p \in DataProps, v \in 0..MaxVal : UserWrite(c, p, v)
  \/ ClockAdvance
  \/ \E f \in {1} : AtTop /\ clockEffect(f)
  \/ BatchBegin
  \/ BatchEnd
  \/ SetStep
  \/ NotifyStep
  \/ NotifyResume
  \/ FnStep
  \/ FnReturn
  \/ ClockReturn
  \/ BatchReturn

SpecClockBatch == Init /\ [][NextClockBatch]_vars

\* An application of one throttled effect whose function writes nothing,
\* which writes the properties of A while time passes.  It stops writing one period before the
\* last instant, so that every timer it causes comes due.
ThrottleWrite(c, p, v) == now + Window <= MaxTime /\ UserWrite(c, p, v)

NextThrottle ==
  \/ \E p \in DataProps, v \in 0..MaxVal : ThrottleWrite(ObjA, p, v)
  \/ \E f \in {1} : AtTop /\ now + Window <= MaxTime /\ throttledEffect(f)
  \/ \E t \in timers : TimerFire(t[1], t[2])
  \/ Tick
  \/ SetStep
  \/ NotifyStep
  \/ NotifyResume
  \/ FnStep
  \/ FnReturn
  \/ ThrottledReturn

SpecThrottle == Init /\ [][NextThrottle]_vars

\* Time passes and a timer that is due fires.
SpecThrottleFair ==
  /\ SpecThrottle
  /\ WF_vars(Tick)
  /\ WF_vars(NextThrottle /\ frames # <<>>)
  /\ WF_vars(\E t \in timers : TimerFire(t[1], t[2]))

\* An application of a throttled effect and an effect whose functions write
\* what the other reads.
NextThrottleCycle ==
  \/ \E c \in DataObjs, p \in DataProps, v \in 0..MaxVal : UserWrite(c, p, v)
  \/ \E f \in {5} : AtTop /\ throttledEffect(f)
  \/ \E f \in {6} : AtTop /\ effect(f)
  \/ \E t \in timers : TimerFire(t[1], t[2])
  \/ Tick
  \/ SetStep
  \/ NotifyStep
  \/ NotifyResume
  \/ FnStep
  \/ FnReturn
  \/ ComputeReturn
  \/ ThrottledReturn
  \/ Unwind
  \/ Uncaught

SpecThrottleCycle == Init /\ [][NextThrottleCycle]_vars

\* An application of two functions that write what the other reads, the
\* first passed to effect or to throttledEffect and the second to effect.
NextReject ==
  \/ \E c \in DataObjs, v \in 0..MaxVal : AtTop /\ UserWrite(c, "p", v)
  \/ \E f \in {5} : AtTop /\ Created = {} /\ throttledEffect(f)
  \/ \E f \in {5} : AtTop /\ Created = {} /\ effect(f)
  \/ \E f \in {6} : AtTop /\ Created = {5} /\ effect(f)
  \/ \E t \in timers : TimerFire(t[1], t[2])
  \/ Tick
  \/ SetStep
  \/ NotifyStep
  \/ NotifyResume
  \/ FnStep
  \/ FnReturn
  \/ ComputeReturn
  \/ ThrottledReturn
  \/ Unwind
  \/ Uncaught

SpecReject == Init /\ [][NextReject]_vars

\* An application of a function that writes B.p, passed to effect or to
\* throttledEffect, and an effect that reads B.p and the result of the first
\* and writes what the first reads.
NextThrow ==
  \/ \E c \in DataObjs, v \in 0..MaxVal : AtTop /\ UserWrite(c, "p", v)
  \/ \E f \in {5} : AtTop /\ Created = {} /\ throttledEffect(f)
  \/ \E f \in {5} : AtTop /\ Created = {} /\ effect(f)
  \/ \E f \in {RFn} : AtTop /\ effect(f)
  \/ \E t \in timers : TimerFire(t[1], t[2])
  \/ Tick
  \/ SetStep
  \/ NotifyStep
  \/ NotifyResume
  \/ FnStep
  \/ FnReturn
  \/ ComputeReturn
  \/ ThrottledReturn
  \/ Unwind
  \/ Uncaught

SpecThrow == Init /\ [][NextThrow]_vars

\* An application of plain effects, created at top level, whose functions
\* read and write A.p and B.p, and that writes these two properties.
CycleFns == {1, 5, 6}
NextCycle ==
  \/ \E c \in DataObjs, v \in 0..MaxVal : AtTop /\ UserWrite(c, "p", v)
  \/ \E f \in CycleFns : AtTop /\ effect(f)
  \/ SetStep
  \/ NotifyStep
  \/ NotifyResume
  \/ FnStep
  \/ FnReturn
  \/ ComputeReturn
  \/ Unwind
  \/ Uncaught

SpecCycle == Init /\ [][NextCycle]_vars

\* The same application on an engine that runs every call to its end.
CycleSteps ==
  SetStep \/ NotifyStep \/ NotifyResume \/ FnStep \/ FnReturn \/ ComputeReturn \/ Unwind \/ Uncaught
SpecCycleFair == SpecCycle /\ WF_vars(CycleSteps)

\* The same application writing A.p and B.p only, the two properties its
\* functions read and write.
NextStacks ==
  \/ \E c \in DataObjs, v \in 0..MaxVal : UserWrite(c, "p", v)
  \/ \E f \in {5} : AtTop /\ throttledEffect(f)
  \/ \E f \in {6} : AtTop /\ effect(f)
  \/ \E t \in timers : TimerFire(t[1], t[2])
  \/ Tick
  \/ SetStep
  \/ NotifyStep
  \/ NotifyResume
  \/ FnStep
  \/ FnReturn
  \/ ComputeReturn
  \/ ThrottledReturn
  \/ Unwind
  \/ Uncaught

SpecStacks == Init /\ [][NextStacks]_vars

\* An application that creates an effect, a throttled effect and a
\* clock-gated effect whose functions write nothing, writes, advances the
\* clock and destroys the results.
NextDestroy ==
  \/ \E p \in DataProps, v \in 0..MaxVal : UserWrite(ObjA, p, v)
  \/ ClockAdvance
  \/ \E f \in {1} : effect(f)
  \/ \E f \in {2} : clockEffect(f)
  \/ \E f \in {4} : throttledEffect(f)
  \/ \E f \in Fns : destroy(f)
  \/ \E t \in timers : TimerFire(t[1], t[2])
  \/ Tick
  \/ SetStep
  \/ NotifyStep
  \/ NotifyResume
  \/ FnStep
  \/ FnReturn
  \/ ComputeReturn
  \/ ClockReturn
  \/ ThrottledReturn
  \/ Uncaught

SpecDestroy == Init /\ [][NextDestroy]_vars

\* An application of an effect whose function calls untracked and of one
\* that writes what the first reads inside untracked.
UntrackedFns == {5, UFn}
NextUntracked ==
  \/ \E c \in DataObjs, p \in DataProps, v \in 0..MaxVal : UserWrite(c, p, v)
  \/ \E f \in UntrackedFns : effect(f)
  \/ SetStep
  \/ NotifyStep
  \/ NotifyResume
  \/ FnStep
  \/ UntrackedBegin
  \/ UntrackedEnd
  \/ FnReturn
  \/ ComputeReturn
  \/ Uncaught

SpecUntracked == Init /\ [][NextUntracked]_vars

\* An application of an effect that writes B.p inside untracked and of
\* effects that read B.p, one of which writes what the first reads, so that
\* the function passed to untracked returns or throws.
UntrackedWriters == {4, 6, XFn}
NextUntrackedWrite ==
  \/ \E c \in DataObjs, v \in 0..MaxVal : UserWrite(c, "p", v)
  \/ \E f \in UntrackedWriters : effect(f)
  \/ SetStep
  \/ NotifyStep
  \/ NotifyResume
  \/ FnStep
  \/ UntrackedBegin
  \/ UntrackedEnd
  \/ FnReturn
  \/ ComputeReturn
  \/ Unwind
  \/ Uncaught

SpecUntrackedWrite == Init /\ [][NextUntrackedWrite]_vars

\* An application that assigns Signals and numbers to the properties n and q
\* of A and reads them back, with effects that read A.p and A.n.p.
WrapFns == {1, 3}
NextWrap ==
  \/ \E p \in {"n", "q"}, d \in DataObjs : UserWriteSignal(ObjA, p, d)
  \/ \E c \in DataObjs, v \in 0..MaxVal : UserWrite(c, "p", v)
  \/ \E v \in 0..MaxVal : UserWrite(ObjA, "q", v)
  \/ \E p \in {"n", "q"} : UserRead(ObjA, p)
  \/ \E f \in WrapFns : AtTop /\ effect(f)
  \/ SetStep
  \/ NotifyStep
  \/ NotifyResume
  \/ FnStep
  \/ FnReturn
  \/ ComputeReturn
  \/ Uncaught

SpecWrap == Init /\ [][NextWrap]_vars

\* An application of the view-model: model({data}), addEffect(sort(...)),
\* addEffect(paging(...)), then assignments to the rows of the data, to
\* options.paging.page and to options.sort.direction.
NextModel ==
  \/ \E i \in {"0", "1"}, v \in 0..MaxVal : AtTop /\ UserWrite(ObjD, i, v)
  \/ \E v \in 1..2 : AtTop /\ UserWrite(ObjPg, "page", v)
  \/ \E v \in 1..2 : AtTop /\ UserWrite(ObjSo, "direction", v)
  \/ \E f \in {SortFn} : AtTop /\ Created = {} /\ effect(f)
  \/ \E f \in {PageFn} : AtTop /\ Created = {SortFn} /\ effect(f)
  \/ SetStep
  \/ NotifyStep
  \/ NotifyResume
  \/ FnStep
  \/ FnBatchBegin
  \/ FnBatchEnd
  \/ FnReturn
  \/ ComputeReturn

SpecModel == Init /\ [][NextModel]_vars

\* An application of an async effect and an effect, which writes A.p and
\* B.p while at most MaxPending runs of the async function are suspended; what they await
\* settles in any order.
AsyncFns == {1, AFn}
NextAsync ==
  \/ \E c \in DataObjs, v \in 0..MaxVal : Len(tasks) < MaxPending /\ UserWrite(c, "p", v)
  \/ \E f \in AsyncFns : Len(tasks) < MaxPending /\ effect(f)
  \/ \E i \in DOMAIN tasks : AsyncResume(i)
  \/ SetStep
  \/ NotifyStep
  \/ NotifyResume
  \/ FnStep
  \/ AwaitStep
  \/ FnReturn
  \/ AsyncReturn
  \/ ComputeReturn
  \/ Uncaught

SpecAsync == Init /\ [][NextAsync]_vars

\* An application of one effect that passes functions and async functions
\* to batch; the deferred results are fulfilled or rejected.
NextAsyncBatch ==
  \/ \E p \in DataProps, v \in 0..MaxVal : UserWrite(ObjA, p, v)
  \/ \E f \in {1} : AtTop /\ effect(f)
  \/ BatchBegin
  \/ BatchEnd
  \/ BatchAwait
  \/ \E i \in DOMAIN tasks : BatchSettle(i)
  \/ \E i \in DOMAIN tasks : BatchReject(i)
  \/ SetStep
  \/ NotifyStep
  \/ NotifyResume
  \/ FnStep
  \/ FnReturn
  \/ ComputeReturn
  \/ BatchReturn
  \/ Uncaught

SpecAsyncBatch == Init /\ [][NextAsyncBatch]_vars

\* ===================================================================
\* Properties
\* ===================================================================
\* The value an effect function returns when it is evaluated on a store,
\* computed from the function's text alone (its writes do not feed its result).
EvalIns(ins, acc, st) ==
  CASE ins.op = "read" -> acc + Num(st[ins.c][ins.p])
    [] ins.op = "read2" -> IF IsObject(st[ins.c][ins.p])
                           THEN acc + Num(st[st[ins.c][ins.p]][ins.p2]) ELSE acc
    [] ins.op = "readRes" -> acc + Num(st[ResObj(ins.g)]["current"])
    [] ins.op = "sel" -> IF Num(st[ins.c][ins.p]) # 0
                         THEN acc + Num(st[ins.c2][ins.p2]) ELSE acc + Num(st[ins.c3][ins.p3])
    [] ins.op = "dbl" -> 2 * acc
    [] ins.op = "sort" -> Sorted(st[ins.c]["0"], st[ins.c]["1"], st[ObjSo]["direction"])
    [] ins.op = "slice" -> PageOf(Num(st[ResObj(ins.g)]["current"]), st[ObjPg]["page"])
    [] ins.op = "mapget" -> acc + Num(st[ins.c][ins.p])
    [] ins.op = "keys" -> acc + Cardinality(OwnKeys(st, ins.c))
    [] ins.op = "has" -> IF ins.p \in OwnKeys(st, ins.c) THEN acc + 1 ELSE acc
    [] OTHER -> acc
RECURSIVE EvalFrom(_, _, _, _)
EvalFrom(f, pc, acc, st) ==
  IF pc > Len(Prog(f)) THEN acc ELSE EvalFrom(f, pc + 1, EvalIns(Prog(f)[pc], acc, st), st)
Eval(f, st) == EvalFrom(f, 1, 0, st)

Count(s, e) == Cardinality({j \in DOMAIN s : s[j].e = e})
Runs(E) == SelectSeq(log, LAMBDA r : r.e \in E)
RunIds(s) == [j \in DOMAIN s |-> s[j].e]
\* only functions that write nothing ran in the current top-level call
PureLog == \A j \in DOMAIN log : IsPure(log[j].e)
\* the top-level call returned to the application without raising
Returned(kind) == frames = <<>> /\ exc = "none" /\ op.kind = kind /\ op.err = "none"
\* computation e existed when the current top-level call started
Existed(e) == reads0[e] # {}
\* the calls on the stack of a write-free effect function that were made
\* because of the notification of a property change (frames[j].why)
Notified == {j \in DOMAIN frames : frames[j].k = "compute" /\ frames[j].ph = "run"
                                   /\ frames[j].via = "notify" /\ IsPure(frames[j].e)}

\* C1: when a top-level write changes a property that a (write-free) effect
\* function read in its most recent run, then at the return of the write the
\* effect's result Signal holds the value the function returns on the store
\* as it is after the write.
C1_SynchronousResult ==
  Returned("write") =>
    \A e \in Created :
      (IsPure(e) /\ (op.changed \cap reads0[e]) # {})
        => store[ResObj(e)]["current"] = Eval(e, store)

C1_Witness ==
  /\ Returned("write")
  /\ \E e \in Created : /\ IsPure(e) /\ (op.changed \cap reads0[e]) # {}
                        /\ Count(log, e) = 1
                        /\ store[ResObj(e)]["current"] = Eval(e, store)
                        /\ store[ResObj(e)]["current"] = 2

\* C2: every call of signal(x), and every read of a property whose value is
\* the object x, returns one and the same Proxy for x.
C2_IdentityMemoized ==
  \A o \in Objs : Cardinality({r[1] : r \in returned[o]}) <= 1

C2_Witness ==
  /\ \E proxy \in {ObjB} \X {1} : returned[ObjB] = {<<proxy, "signal">>, <<proxy, "get">>}
  /\ returned[ObjA] # {}

\* C3: stale-edge pruning.  A (write-free) effect is re-run by the notification of a
\* change of property P only if its most recent run read P: once a branch
\* switch made the effect read Q instead of P, a write that changes only P
\* does not re-run it.
C3_StaleEdgePruned ==
  \A j \in Notified : frames[j].why \in lastReads[frames[j].e]

\* C4: a (write-free) effect whose most recent run read, of the properties of Signal S,
\* only P is not re-run by a write that changes another existing property Q
\* of S.
C4_UnrelatedProperty ==
  \A j \in Notified :
    LET e == frames[j].e
        S == frames[j].why[1]
        Q == frames[j].why[2]
    IN ~ \E P \in Props \ {Q} : {x \in lastReads[e] : x[1] = S} = {<<S, P>>}

\* C5: a write of a value strictly equal to the property's current value
\* stores nothing and calls notifySet for no property, so that no effect
\* that read the property is flagged, batched or re-run by it.
C5_EqualWrite ==
  /\ [][\A x \in Writable, v \in 0..MaxVal :
          (UserCtx /\ store[x[1]][x[2]] = v /\ UserWrite(x[1], x[2], v))
            => /\ store' = store /\ frames' = frames
               /\ needsUpdate' = needsUpdate /\ context' = context
               /\ batchedListeners' = batchedListeners
               /\ log' = LogBase /\ computeStack' = computeStack]_vars
  /\ []((op.kind = "write" /\ op.changed = {}) => (log = <<>> /\ frames = <<>>))

C5_Witness ==
  /\ Returned("write") /\ op.changed = {} /\ log = <<>>
  /\ \E e \in Created : <<op.c, op.p>> \in lastReads[e]

\* b reads data Signals only and c reads nothing but b's result
Chain(b, c) ==
  /\ IsPure(b) /\ Needs(b) = {}
  /\ \A j \in DOMAIN Prog(c) : Prog(c)[j].op = "readRes" /\ Prog(c)[j].g = b

\* C6: glitch-freedom on a chain.  One write outside a batch runs B's
\* function at most once and C's function at most once before it returns;
\* when it changed a property B had read, B's result and C's result are then
\* the values of their functions on the store after the write, so that C's
\* run observed B's updated result.
C6_GlitchFreeChain ==
  \A b, c \in Created :
    (Chain(b, c) /\ op.kind = "write" /\ PureLog /\ Existed(b) /\ Existed(c)) =>
      /\ Count(log, b) <= 1
      /\ Count(log, c) <= 1
      /\ (Returned("write") /\ (op.changed \cap reads0[b]) # {}) =>
           /\ store[ResObj(b)]["current"] = Eval(b, store)
           /\ store[ResObj(c)]["current"] = Eval(c, store)

C6_Witness ==
  /\ Returned("write")
  /\ \E b, c \in Created :
       /\ Chain(b, c) /\ Existed(b) /\ Existed(c) /\ (op.changed \cap reads0[b]) # {}
       /\ RunIds(log) = <<b, c>>
       /\ store[ResObj(c)]["current"] = Eval(b, store)
       /\ store[ResObj(c)]["current"] # res0[c]

\* e1 reads data Signals only; e2 reads e1's result and a data Signal
ScenarioB(e1, e2) ==
  /\ IsPure(e1) /\ Needs(e1) = {}
  /\ IsPure(e2) /\ Needs(e2) = {e1}
  /\ \E j \in DOMAIN Prog(e2) : Prog(e2)[j].op # "readRes"

\* C7: scenario B.  A write that changes a property only E2 had read runs E2
\* and not E1; a write that changes a property E1 had read, and thereby E1's
\* result, runs E1 and then E2, each exactly once.
C7_ScenarioB ==
  \A e1, e2 \in Created :
    (ScenarioB(e1, e2) /\ Returned("write") /\ PureLog /\ Existed(e1) /\ Existed(e2)
       /\ op.changed # {}) =>
      /\ (op.changed \subseteq reads0[e2] \ reads0[e1])
           => RunIds(Runs({e1, e2})) = <<e2>>
      /\ (op.changed \subseteq reads0[e1] \ reads0[e2]
            /\ store[ResObj(e1)]["current"] # res0[e1])
           => RunIds(Runs({e1, e2})) = <<e1, e2>>

C7_Witness ==
  /\ Returned("write") /\ op.changed # {}
  /\ \E e1, e2 \in Created :
       /\ ScenarioB(e1, e2) /\ Existed(e1) /\ Existed(e2)
       /\ op.changed \subseteq reads0[e1] \ reads0[e2]
       /\ store[ResObj(e1)]["current"] # res0[e1]
       /\ RunIds(log) = <<e1, e2>>

\* C8: batch coalescing.  An effect that reads data Signals is not executed
\* while the function passed to batch is running and, when properties of
\* two different Signals that it had read were changed in the batch, it has
\* been executed exactly once when batch returns.
C8_BatchCoalescing ==
  \A e \in Created :
    (op.kind = "batch" /\ IsPure(e) /\ Needs(e) = {} /\ Existed(e) /\ PureLog) =>
      /\ \A j \in DOMAIN log : log[j].e = e => log[j].bm = 0
      /\ (Returned("batch")
            /\ \E x, y \in op.changed \cap reads0[e] : x[1] # y[1]) => Count(log, e) = 1

C8_Witness ==
  /\ Returned("batch")
  /\ \E e \in Created :
       /\ IsPure(e) /\ Needs(e) = {} /\ Existed(e) /\ PureLog
       /\ \E x, y \in op.changed \cap reads0[e] : x[1] # y[1]
       /\ log = <<[e |-> e, via |-> "drain", bm |-> 0]>>
       /\ store[ResObj(e)]["current"] = Eval(e, store)
       /\ store[ResObj(e)]["current"] # res0[e]

\* the runs of e made after the batch depth returned to 0
Drained(e) == {j \in DOMAIN log : log[j].e = e /\ log[j].bm = 0 /\ log[j].via # "create"}

\* C9: whatever was written inside a batch, each Computation's function is
\* executed at most once between the return of the batch depth to 0 and the
\* return of batch.
C9_DrainAtMostOnce ==
  \A e \in Computes : (op.kind = "batch" /\ PureLog) => Cardinality(Drained(e)) <= 1

AtListener == exc = "none" /\ TopIs("notify") /\ Top.ph = "test" /\ Top.i <= Len(Top.ls)
Listener == Top.ls[Top.i]
NoDuplicates(s) == \A j, k \in DOMAIN s : s[j] = s[k] => j = k

C11_RecursiveOnlyWhenRunning ==
  (op.kind = "effect" /\ (exc = "Recursive" \/ op.err = "Recursive")) =>
    \E j \in DOMAIN frames : frames[j].k = "fn" /\ frames[j].e = op.f

\* the call of the function of computation e starts in this step
FnStarts(e) ==
  /\ Len(frames') > Len(frames)
  /\ Last(frames').k = "fn" /\ Last(frames').e = e /\ Last(frames').pc = 1
IsClock(e) == e \in Created /\ variant[e] = "clock"

\* C12: the function of a clock-gated effect is called only when clock.time
\* is greater than it was when the function was last called, whatever was
\* written in between: at most once per tick value.
C12_ClockGated ==
  [][\A e \in Computes :
       (IsClock(e) /\ FnStarts(e)) =>
         /\ runTick[e] < store[ObjC]["time"]
         /\ runTick'[e] = store[ObjC]["time"]]_vars

C12_Witness ==
  /\ Returned("write") /\ op.c # ObjC /\ log = <<>>
  /\ \E e \in Computes :
       /\ IsClock(e) /\ Existed(e)
       /\ (op.changed \cap reads0[e]) # {}
       /\ runTick[e] = store[ObjC]["time"] /\ store[ObjC]["time"] > 0
       /\ hasChanged[e]

\* C13: no change of a dependency is lost.  When a top-level clock.time++
\* returns, a clock-gated effect whose function writes nothing has been
\* called if a property it had read changed since its previous call, so
\* that its result is the value of its function on the store.
C13_TickReflects ==
  \A e \in Computes :
    (Returned("write") /\ op.c = ObjC /\ op.changed # {}
       /\ IsClock(e) /\ IsPure(e) /\ Existed(e))
      => store[ResObj(e)]["current"] = Eval(e, store)

\* ---------------------------------------------------------------- C14
IsThrottled(e) == e \in Created /\ variant[e] = "throttled"

\* C14: any two executions of the function of a throttled effect are at least
\* the period apart: when the function starts, its previous start (if any)
\* lies at least Window before.
C14_OncePerWindow ==
  [][\A e \in Computes : (IsThrottled(e) /\ FnStarts(e) /\ ranAt[e] # -1)
                            => now >= ranAt[e] + Window]_vars

\* ---------------------------------------------------------------- C15
Pending(e) == IsThrottled(e) /\ hasChange[e] /\ Cooling(throttled[e], now)

\* C15: a throttled effect that was triggered during its cooldown has its
\* function executed again without another trigger (the finally block of
\* that execution clears hasChange), and whenever no call is active and no
\* change is pending its result is the value of its function.
C15_ReflectsAfterWindow ==
  /\ \A e \in {1} : Pending(e) ~> (IsThrottled(e) /\ ~hasChange[e] /\ frames = <<>>)
  /\ [](\A e \in {1} : (IsThrottled(e) /\ frames = <<>> /\ ~hasChange[e])
                          => store[ResObj(e)]["current"] = Eval(e, store))

C15_Witness ==
  /\ Returned("timer") /\ log # <<>> /\ log[1].via = "timer"
  /\ IsThrottled(op.f) /\ ~hasChange[op.f]
  /\ store[ResObj(op.f)]["current"] = Eval(op.f, store)
  /\ res0[op.f] # store[ResObj(op.f)]["current"]

\* ---------------------------------------------------------------- C16
Listens(e) == \E x \in DOMAIN listenersMap : e \in Range(listenersMap[x])

\* C16: destroy(R) raises nothing and, when it has returned, the computation
\* of R listens to no property.
C16_DestroyDetaches ==
  op.kind = "destroy" =>
    /\ exc = "none" /\ op.err = "none"
    /\ ~Listens(op.f)

\* ---------------------------------------------------------------- C17
\* the properties the instructions of f read while f is tracked: outside
\* untracked and before an await
Untracked(f, j) ==
  \/ \E i \in 1..(j - 1) : /\ Prog(f)[i].op = "ubegin"
                            /\ \A k \in i..j : Prog(f)[k].op # "uend"
  \/ \E i \in 1..(j - 1) : Prog(f)[i].op = "await"
Tracked(f) == {<<Prog(f)[j].c, Prog(f)[j].p>> :
                 j \in {j \in 1..Len(Prog(f)) : Prog(f)[j].op = "read" /\ ~Untracked(f, j)}}
Edges(e) == {<<Target(x[1]), x[2]>> :
               x \in {x \in DOMAIN listenersMap : e \in Range(listenersMap[x])}}

\* C17: a read inside untracked creates no edge (the edges of the two
\* effects are to properties they read outside untracked); a write that
\* changes only B.p, which the effect reads only inside untracked, does not
\* run its function, and a write that changes A.p, which it reads outside,
\* runs it.
C17_UntrackedReads ==
  /\ \A e \in UntrackedFns : Edges(e) \subseteq Tracked(e)
  /\ (op.kind = "write" /\ <<ObjA, "p">> \notin op.changed) => Count(log, UFn) = 0
  /\ (Returned("write") /\ <<ObjA, "p">> \in op.changed /\ Existed(UFn))
       => Count(log, UFn) = 1

C17_Witness ==
  /\ Returned("write") /\ op.changed = {<<ObjB, "p">>} /\ log = <<>>
  /\ Existed(UFn) /\ Edges(UFn) = {<<ObjA, "p">>}
  /\ store[ResObj(UFn)]["current"] # Eval(UFn, store)

\* ---------------------------------------------------------------- C18
\* C18: the edges of every computation are to properties its function read
\* before its first await, whatever runs and continuations interleave; a
\* write that changes A.p, read before the await, runs the async function
\* again, and one that changes only B.p, read after it, does not.
C18_AwaitEndsTracking ==
  /\ \A e \in AsyncFns : Edges(e) \subseteq Tracked(e)
  /\ (Returned("write") /\ <<ObjA, "p">> \in op.changed /\ Existed(AFn))
       => (Count(log, AFn) = 1 /\ Edges(AFn) = {<<ObjA, "p">>})
  /\ (op.kind = "write" /\ <<ObjA, "p">> \notin op.changed) => Count(log, AFn) = 0

C18_Witness ==
  /\ Returned("write") /\ op.changed = {<<ObjB, "p">>} /\ log = <<>>
  /\ Existed(AFn) /\ lastVal[AFn] # Undef
  /\ \E i \in DOMAIN tasks : tasks[i].e = AFn

\* ---------------------------------------------------------------- C19
IsAsync(f) == \E j \in 1..Len(Prog(f)) : Prog(f)[j].op = "await"
Idle == frames = <<>> /\ exc = "none" /\ tasks = <<>>

\* C19: when nothing runs and nothing is pending, the result of an effect is
\* what the most recent run of its function returned or settled with.
C19_CurrentIsLatest ==
  \A e \in AsyncFns :
    (Idle /\ e \in Created) =>
      store[ResObj(e)]["current"] = IF IsAsync(e) THEN lastVal[e] ELSE Eval(e, store)

\* ---------------------------------------------------------------- C20
OpenBatches ==
  Cardinality({j \in DOMAIN frames : frames[j].k = "batch" /\ frames[j].ph = "body"})
  + Cardinality({i \in DOMAIN tasks : tasks[i].k = "batch"})

\* C20: batchMode is the number of calls of batch whose function has not
\* returned or whose deferred result has not settled, and the listeners put
\* aside are drained when it reaches 0.
C20_DepthIsOpenBatches ==
  /\ batchMode = OpenBatches
  /\ (batchMode = 0 /\ frames = <<>>) => batchedListeners = <<>>

\* ---------------------------------------------------------------- C23
\* C23: whenever no call is active, the edges of every computation are
\* exactly the properties its most recent completed run read.
C23_EdgesAreLastReads ==
  (frames = <<>> /\ exc = "none") =>
    \A e \in Created : (lastReads[e] # {} => Edges(e) = lastReads[e])

\* ---------------------------------------------------------------- C25
\* the run of computation Top.e ended by an exception: its finally block is
\* done and the exception is about to leave computeEffect2
Threw == TopIs("compute") /\ Top.ph = "finally" /\ Top.exc # "none" /\ exc = "none"

\* C25: a computation whose function threw is subscribed to nothing when its
\* run ends.
C25_ThrownRunUnsubscribed == Threw => Edges(Top.e) = {}

\* ---------------------------------------------------------------- C26
\* the computations whose function is running, outermost first
RECURSIVE RunningIn(_)
RunningIn(fr) ==
  IF fr = <<>> THEN <<>>
  ELSE IF Head(fr).k = "compute" /\ Head(fr).ph = "run"
       THEN <<Head(fr).e>> \o RunningIn(Tail(fr))
       ELSE RunningIn(Tail(fr))
Running == RunningIn(frames)

\* C26: the Compute Stack holds exactly the computations whose function is
\* running and the Signal Stack their result Signals, in call order: a run
\* that has ended, by return or by exception, has left both as they were when
\* it started, and both are empty when no call is active.
C26_StacksBalanced ==
  /\ computeStack = Running
  /\ signalStack = [j \in DOMAIN Running |-> signals[FnObj(Running[j])]]
  /\ frames = <<>> => (computeStack = <<>> /\ signalStack = <<>>)

C26_Witness ==
  /\ frames = <<>> /\ exc = "none" /\ op.err = "Cyclical" /\ op.kind = "write"
  /\ \E j \in DOMAIN log : IsThrottled(log[j].e)
  /\ \E j \in DOMAIN log : log[j].e \in Created /\ variant[log[j].e] = "effect"
  /\ computeStack = <<>> /\ signalStack = <<>>


\* C27: a write made by a computation during its own run to a property it
\* is subscribed to reaches the computation itself in the loop of notifySet:
\* that turn does not call it and raises no error, it only deletes its
\* needsUpdate flag and its context and moves to the next listener; a
\* flagged listener other than the running computation, met in the same
\* loop, is called.
SelfWrite == AtListener /\ Top.via = "notify" /\ computeStack # <<>>
               /\ Last(computeStack) \in Range(Top.ls)
Wave(fr) == fr.k = "notify" /\ fr.via = "notify"
Subscribers(fr) == getListeners(listenersMap, signals[fr.why[1]], fr.why[2])
IsPrefix(s, t) == Len(s) <= Len(t) /\ s = SubSeq(t, 1, Len(s))
C29_WaveOrder ==
  /\ [](\A j \in DOMAIN frames : Wave(frames[j]) =>
          /\ NoDuplicates(frames[j].ls)
          /\ IsPrefix(frames[j].ls, Subscribers(frames[j]))
          /\ (frames[j].ph = "called" /\ j < Len(frames)) =>
               /\ frames[j + 1].k = "compute"
               /\ frames[j + 1].e = frames[j].ls[frames[j].i])
  /\ [][(TopIs("set") /\ Len(frames') = Len(frames) + 1 /\ Wave(Last(frames'))) =>
          /\ Last(frames').i = 1
          /\ Last(frames').ls = Subscribers(Last(frames'))]_vars
  /\ [][\A j \in DOMAIN frames \cap DOMAIN frames' :
          (Wave(frames[j]) /\ Wave(frames'[j])) =>
            /\ frames'[j].ls = frames[j].ls
            /\ frames'[j].i = IF (frames[j].ph = "called" /\ frames'[j].ph = "test")
                                \/ (frames[j].ph = "test" /\ frames'[j].ph = "test"
                                    /\ j = Len(frames) /\ frames' # frames)
                              THEN frames[j].i + 1 ELSE frames[j].i]_vars
\* a write of A.p by the application has called effect 5 and then effect 1,
\* subscribed in that order, and its loop is over
C29_Witness ==
  /\ exc = "none" /\ Len(frames) = 2 /\ Wave(Top) /\ Top.ph = "test"
  /\ Top.ls = <<5, 1>> /\ Top.i = 3 /\ Top.why = <<ObjA, "p">>
  /\ Len(log) = 2 /\ log[1].e = 5 /\ log[1].via = "notify"
  /\ log[2].e = 1 /\ log[2].via = "notify"


\* C28: while batchMode is above 0, at any depth of nested batch calls, a
\* notification calls no computation, it only adds to batchedListeners; the
\* end of an inner batch call lowers batchMode and leaves batchedListeners
\* as it is, and batchedListeners is emptied, and its computations called,
\* only by the end of the batch call that brings batchMode to 0.
InnerEnd == UserCtx /\ TopIs("batch") /\ batchMode > 1 /\ batchMode' = batchMode - 1
C28_NestedBatchDefers ==
  /\ [](batchMode = OpenBatches)
  /\ [](batchMode > 0 => (computeStack = <<>> /\ \A j \in DOMAIN frames : frames[j].k # "notify"))
  /\ [][batchMode > 0 => (log' = log \/ batchMode' = 0)]_vars
  /\ [][InnerEnd => (batchedListeners' = batchedListeners /\ log' = log
                       /\ needsUpdate' = needsUpdate /\ Len(frames') = Len(frames))]_vars
  /\ [][(batchedListeners # <<>> /\ batchedListeners' # batchedListeners
           /\ ~IsPrefix(batchedListeners, batchedListeners')) =>
          (batchMode = 1 /\ batchMode' = 0 /\ batchedListeners' = <<>>
             /\ Last(frames').k = "notify" /\ Last(frames').ls = batchedListeners)]_vars
\* an inner batch call has ended after a write to A.p that effect 1 reads:
\* batchMode is back to 1, effect 1 is pending and has not been called
C28_Witness ==
  /\ exc = "none" /\ Len(frames) = 2 /\ frames[1].k = "batch" /\ frames[1].ph = "body"
  /\ frames[2].k = "batch" /\ frames[2].ph = "finally"
  /\ batchMode = 1 /\ batchedListeners = <<1>> /\ needsUpdate[1]
  /\ op.kind = "batch" /\ log = <<>>


\* C24: no computation is on computeStack more than once.
C24_NoComputationTwice == NoDuplicates(computeStack)


\* C21: when a call of the application changes, by an assignment or by a
\* method of the container, a value that an effect function read through
\* the Signal in its most recent run (a property of a record or of a nested
\* record, or an entry of a Map read with get and replaced with set), the
\* function has been called again when the call returns.
C21_ContainerReadRerun ==
  Returned("write") =>
    \A e \in Created :
      (Existed(e) /\ (op.changed \cap reads0[e]) # {}) => Count(log, e) >= 1


\* C22: when a write through the Signal adds a property to a container, or
\* a delete through the Signal removes one, every effect function that
\* listed the container's keys, or tested the existence of that key, in its
\* most recent run has been called again when the call returns.
Enumerates(e) == \E j \in 1..Len(Prog(e)) : Prog(e)[j].op \in {"keys", "has"}
C22_KeySetRerun ==
  (Returned("write") \/ Returned("delete")) =>
    \A e \in Created :
      (Enumerates(e) /\ Existed(e) /\ <<op.c, iterate>> \in op.changed
         /\ (op.changed \cap reads0[e]) # {}) => Count(log, e) >= 1


\* C30: when Object.defineProperty on a Signal has defined a property that
\* the container did not have, every effect function that read the
\* property, or listed the container's keys, in its most recent run has
\* been called again, and its result Signal holds what the function returns
\* with the property present, as after a write of the new property.
C30_DefineLikeWrite ==
  (Returned("define") /\ <<op.c, iterate>> \in op.changed) =>
    \A e \in Created :
      (IsPure(e) /\ Existed(e) /\ (op.changed \cap reads0[e]) # {}) =>
        /\ Count(log, e) >= 1
        /\ store[ResObj(e)]["current"] = Eval(e, store)


\* C31: with two clock-gated effects on one clock whose functions write what
\* the other reads, no call raises an error, every call of the application
\* (a write of a dependency or clock.time++) comes to its end, and a
\* clock.time++ calls the function of each effect at most once.
C31_ClockCycleTerminates ==
  /\ [](exc = "none" /\ op.err = "none")
  /\ []((op.kind = "write" /\ op.c = ObjC) => \A e \in Computes : Count(log, e) <= 1)
  /\ [](NoDuplicates(computeStack))
  /\ (frames # <<>>) ~> (frames = <<>>)
\* a clock.time++ has returned after calling the functions of both effects,
\* each of which subscribes to what the other writes
C31_Witness ==
  /\ Returned("write") /\ op.c = ObjC
  /\ IsClock(5) /\ IsClock(6)
  /\ Count(log, 5) = 1 /\ Count(log, 6) = 1
  /\ <<ObjA, "p">> \in lastReads[5] /\ <<ObjB, "p">> \in lastReads[6]


\* C32: during a call of untracked computeStack holds the computations
\* started inside the function passed to it, and outside any such call it
\* holds the running computations, so that when the function has returned
\* or thrown the stack is what it was before the call; the run of the
\* calling effect function results in what the function passed to untracked
\* returned; a computation started inside the function is subscribed to the
\* properties its run read.
UntrackedAt == {j \in DOMAIN frames : frames[j].k = "fn" /\ frames[j].un}
Innermost == IF UntrackedAt = {} THEN 0 ELSE CHOOSE j \in UntrackedAt : \A k \in UntrackedAt : k <= j
StartedInside(j) == j > Innermost /\ Innermost > 0 /\ frames[j].k = "compute"
C32_UntrackedRestores ==
  /\ computeStack = RunningIn(SubSeq(frames, Innermost + 1, Len(frames)))
  /\ (TopIs("compute") /\ Top.e = XFn /\ Top.ph = "finally" /\ Top.exc = "none" /\ exc = "none")
       => store[ResObj(XFn)]["current"] = Eval(XFn, store)
  /\ \A e \in UntrackedWriters \ {XFn} : lastReads[e] \subseteq Edges(e)
  /\ \A j \in DOMAIN frames :
       (StartedInside(j) /\ frames[j].ph = "finally" /\ frames[j].exc = "none")
         => (lastReads[frames[j].e] # {} /\ lastReads[frames[j].e] \subseteq Edges(frames[j].e))
\* the creation of the effect that writes inside untracked has ended with
\* the cyclic-dependency error, thrown through the function passed to
\* untracked by effect 6, which was started inside it
C32_Witness ==
  /\ frames = <<>> /\ exc = "none" /\ op.err = "Cyclical"
  /\ computeStack = <<>>
  /\ \E j \in DOMAIN log : log[j].e = XFn
  /\ \E j \in DOMAIN log : log[j].e = 6 /\ log[j].via = "notify"
  /\ <<ObjB, "p">> \in Edges(6) /\ <<ObjB, "p">> \notin Edges(XFn)


\* C33: an assignment of a Signal to a property through a Signal stores the
\* Signal's raw container: no property of any container is a Proxy, and
\* every Proxy the application received for a container, from signal() or
\* by reading a property whose value is the container, is the one memoized
\* for that container.
C33_StoresRaw ==
  /\ \A o \in Objs : \A p \in PropsOf(o) : ~IsSignalRef(store[o][p])
  /\ \A o \in Objs : \A r \in returned[o] : r[1] = signals[o] /\ Target(r[1]) = o
\* A.n = signal(A) was assigned and A.n read back
C33_Witness ==
  /\ Returned("read") /\ op.c = ObjA /\ op.p = "n"
  /\ store[ObjA]["n"] = ObjA
  /\ returned[ObjA] = {<<signals[ObjA], "signal">>, <<signals[ObjA], "get">>}
  /\ signals[ObjA] # NoProxy


\* C34: in the view-model with a sort effect and then a paging effect, an
\* assignment that changes options.paging.page calls the paging function
\* and not the sort function, and the view is the page of the sorted data;
\* an assignment that changes a row of the data calls the sort function and
\* then the paging function, and the view is the page of the new data,
\* sorted.
ViewModel == SortFn \in Created /\ PageFn \in Created /\ Existed(PageFn)
SortedData == Sorted(store[ObjD]["0"], store[ObjD]["1"], store[ObjSo]["direction"])
View == store[ResObj(PageFn)]["current"]
C34_PageChange ==
  (ViewModel /\ Returned("write") /\ op.c = ObjPg /\ op.changed # {}) =>
    /\ Count(log, SortFn) = 0 /\ Count(log, PageFn) >= 1
    /\ View = PageOf(store[ResObj(SortFn)]["current"], store[ObjPg]["page"])
C34_DataChange ==
  (ViewModel /\ Returned("write") /\ op.c = ObjD /\ op.changed # {}) =>
    /\ Len(log) >= 2 /\ log[1].e = SortFn /\ log[2].e = PageFn
    /\ View = PageOf(SortedData, store[ObjPg]["page"])
C34_ViewModelFlow == C34_PageChange /\ C34_DataChange

C34_PageChanged ==
  /\ ViewModel /\ Returned("write") /\ op.c = ObjPg /\ op.changed # {}
  /\ store[ObjPg]["page"] = 2 /\ Count(log, PageFn) = 1
  /\ store[ResObj(SortFn)]["current"] = 1 /\ View = 1


\* C35: with plain effects created at top level, whose functions end, every
\* assignment through a Signal ends, returning or raising the
\* cyclic-dependency error, and the Compute Stack is never deeper than the
\* number of Computations.
Writing == op.kind = "write" /\ (frames # <<>> \/ exc # "none")
Ended == frames = <<>> /\ exc = "none" /\ op.kind = "write"
C35_WritesTerminate ==
  /\ [](Len(computeStack) <= Cardinality(Created))
  /\ [](Ended => op.err \in {"none", "Cyclical"})
  /\ Writing ~> Ended

C35_Witness ==
  /\ Ended /\ op.err = "Cyclical" /\ Created = {5, 6}
  /\ Len(log) >= 2


\* C36: a call of a Computation that is rejected with the cyclic-dependency
\* error, of an effect or of a throttled effect, does not enter the
\* function and leaves the Compute Stack, the Signal Stack, every
\* dependency edge and every stored value, the Computation's result
\* included, as they were.
Rejected == AtListener /\ exc' = "Cyclical"
C36_RejectionChangesNothing ==
  [][Rejected =>
       /\ log' = log /\ Len(frames') = Len(frames)
       /\ computeStack' = computeStack /\ signalStack' = signalStack
       /\ listenersMap' = listenersMap /\ computeMap' = computeMap
       /\ store' = store /\ throttled' = throttled]_vars

C36_Witness ==
  /\ exc = "Cyclical" /\ TopIs("notify") /\ Top.ph = "called"
  /\ variant[Top.ls[Top.i]] = "throttled" /\ Top.ls[Top.i] \in Range(computeStack)
  /\ Last(computeStack) # Top.ls[Top.i]

C36_PlainRejected ==
  /\ exc = "Cyclical" /\ TopIs("notify") /\ Top.ph = "called"
  /\ variant[Top.ls[Top.i]] # "throttled" /\ Top.ls[Top.i] \in Range(computeStack)


\* C37: when the function of an effect or of a throttled effect throws, the
\* finally block assigns undefined to current of the effect's result Signal,
\* whatever the previous result was, and the Computations subscribed to
\* current are notified while the error is held: the error reaches the
\* caller of the Computation only when the assignment is done.
FnThrew == exc # "none" /\ TopIs("compute") /\ Top.ph = "run" /\ frames' # frames
Held(fr) == fr.k = "compute" /\ fr.ph = "finally" /\ fr.exc # "none"
Holding(j) == Held(frames[j])
C37_ThrowAssignsUndefined ==
  /\ [][FnThrew =>
          /\ exc' = "none"
          /\ store'[ResObj(Top.e)]["current"] = Undef
          /\ LET n == Len(frames) IN
               IF store[ResObj(Top.e)]["current"] # Undef
               THEN /\ Len(frames') = n + 1 /\ Held(frames'[n]) /\ frames'[n].exc = exc
                    /\ frames'[n + 1].k = "set" /\ Head(frames'[n + 1].todo) = <<"current">>
                    /\ Target(frames'[n + 1].self) = ResObj(Top.e)
               ELSE /\ Held(frames'[n]) /\ frames'[n].exc = exc
                    /\ store' = store]_vars
  /\ [][(exc = "none" /\ exc' # "none" /\ \E j \in DOMAIN frames : Holding(j)) =>
          \/ AtListener
          \/ Holding(Len(frames)) /\ frames' = Front(frames) /\ exc' = Top.exc]_vars

C37_Witness ==
  /\ TopIs("fn") /\ Top.e = RFn /\ exc = "none"
  /\ \E j \in DOMAIN frames :
       /\ Holding(j) /\ frames[j].e = 5 /\ store[ResObj(5)]["current"] = Undef
       /\ j + 3 <= Len(frames)
       /\ frames[j + 2].k = "notify" /\ frames[j + 2].why = <<ResObj(5), "current">>
       /\ frames[j + 3].k = "compute" /\ frames[j + 3].e = RFn
  /\ variant[5] = "throttled"


\* C38: batchMode is never negative, and when a call of batch with a
\* function that returns or throws ends, batchMode is what it was when
\* batch was called (acc of the call's frame): the call ends with the error
\* of its function, if any, and when batchMode is back to 0 the listeners
\* put aside have been taken from batchedListeners and handed to the loop
\* of runBatchedListeners.
BatchEnds == TopIs("batch") /\ Top.ph = "finally" /\ exc = "none" /\ frames' = Front(frames)
C38_BatchDepthRestored ==
  /\ [](batchMode >= 0)
  /\ [][BatchEnds =>
          /\ batchMode = Top.acc /\ batchMode' = batchMode /\ exc' = Top.exc
          /\ batchMode = 0 => batchedListeners = <<>>]_vars
  /\ [][(TopIs("batch") /\ Top.ph = "body" /\ frames'[Len(frames)].ph = "finally") =>
          /\ batchMode' = Top.acc
          /\ IF Top.acc = 0
             THEN /\ batchedListeners' = <<>> /\ Len(frames') = Len(frames) + 1
                  /\ Last(frames').k = "notify" /\ Last(frames').ls = batchedListeners
             ELSE batchedListeners' = batchedListeners /\ Len(frames') = Len(frames)]_vars

\* a call of batch at top level whose function wrote A.p and then threw has
\* ended: the effect that was put aside has been called and the error has
\* reached the application
C38_Witness ==
  /\ frames = <<>> /\ exc = "none" /\ op.kind = "batch" /\ op.err = "Error"
  /\ batchMode = 0 /\ batchedListeners = <<>>
  /\ Len(log) >= 1 /\ log[1].via = "drain"


\* C39: whenever no call is active, batchMode is 0 and the last call of the
\* application ended without an error, no Computation has needsUpdate set
\* or holds a context.
Quiet == frames = <<>> /\ exc = "none" /\ batchMode = 0 /\ op.err = "none"
C39_NoFlagLeft ==
  Quiet => \A e \in Created : ~needsUpdate[e] /\ context[e] = {}
====
